---- MODULE Spec2Model ----
(***************************************************************************)
(* MesaRPG server: SORTTracker (server/tracker.py), SimpleTracker          *)
(* (server/simple_tracker.py), the calibration, the camera and the         *)
(* miniatures of CameraManager (server/camera_manager.py), the map store   *)
(* of GameStateManager (server/game_state.py) and the event loop of the    *)
(* camera socket (server/main.py).                                         *)
(*                                                                         *)
(* One tracker object is constructed in Init (the variable tracker names   *)
(* its class) and then driven by update(detections) and reset() calls.     *)
(* Scores are exact rationals <<numerator, denominator>>; detection        *)
(* indices are 1-based (Python's det_idx + 1); a dict is a function whose  *)
(* keys are iterated in ascending id order, which is the insertion order   *)
(* of a dict filled by an increasing counter.  A track carries the fields  *)
(* that update(), _cleanup() and _get_active_tracks() read or that a match  *)
(* overwrites from the detection; timestamps decide nothing there and are  *)
(* left out, the position history and the velocity of a TrackedObject are  *)
(* kept in the variable motion.  distance_threshold and max_distance are   *)
(* the constructor defaults (100); iou_threshold is 0.15 except where the  *)
(* greedy loop of _match is run on its own.  Each specification drives one *)
(* part of the server and leaves the others as constructed.                *)
(***************************************************************************)
EXTENDS Integers, Sequences, FiniteSets, TLC

VARIABLES
    tracker,      \* which class was constructed: "SORTTracker" or "SimpleTracker"
    max_age,      \* SORTTracker.max_age / SimpleTracker.max_missing
    min_hits,     \* SORTTracker.min_hits
    tracks,       \* self.tracks: id -> track record
    next_id,      \* self.next_id
    frame_count,  \* SORTTracker.frame_count; of a SimpleTracker, the update()
                  \* calls since construction or the last reset()
    last_op,      \* the call that ended last: "init", "update", "reset", ...
    last_dets,    \* argument of the last call
    ret,          \* what the last call returned; of update(), the ids of the
                  \* tracks in list order
    matched,      \* <<det_idx, trk_id>> pairs committed by the last update()
    created,      \* <<det_idx, id>> of the tracks the last update() created
    removed,      \* the tracks _cleanup() deleted in the last update(), as deleted
    steady,       \* the detection fed alone in every frame since the tracker was fresh
    session_ids,  \* every id allocated since construction or the last reset()
    hist_ids,     \* every id allocated since construction
    missed,       \* track id -> the consecutive update() calls, up to the
                  \* last one, that ended without matching the track
    iou_threshold,  \* SORTTracker.iou_threshold
    matching,       \* the locals of a running SORTTracker._match call
    calibration,    \* CameraManager.calibration, a CalibrationData
    cv2_available,  \* CV2_AVAILABLE of camera_manager.py
    state,          \* CameraManager.state
    was_calibrated, \* a calculate_homography() call has returned True
    cap,            \* CameraManager.cap: "none", or a VideoCapture "open" or "closed"
    running,        \* CameraManager._running
    current,        \* the coroutine the event loop is running, or "none"
    pc,             \* where each coroutine of the camera socket stands
    updating,       \* the coroutines inside tracker.update()
    processed,      \* FrameProcessor._frame_count
    map_files,      \* config/maps: map id -> the map written to <id>.json
    current_map,    \* GameStateManager.state.current_map
    saved_name,     \* map id -> the name of the last save_map that returned
                    \* the id, until delete_map is called for it
    tracked_miniatures,  \* CameraManager.tracked_miniatures, in insertion order
    capture,        \* the capture thread inside _update_tracking
    request,        \* the event loop thread inside a miniature endpoint
    motion          \* track id -> position_history and velocity of the
                    \* TrackedObject, followed in the motion specification

\* the variables of the calibration and of a _match call run on its own
match_vars == <<iou_threshold, matching>>
camera_vars == <<calibration, cv2_available, state, was_calibrated, cap, running>>

\* the variables of the event loop that serves /ws/camera
loop_vars == <<current, pc, updating, processed>>

\* the variables of the server around the trackers
\* the variables of the map store
maps_vars == <<map_files, current_map, saved_name>>

\* the variables of the server around the trackers
\* the variables of the miniature tracking of CameraManager
tracking_vars == <<tracked_miniatures, capture, request>>

service_vars == <<loop_vars, maps_vars, tracking_vars>>

server_vars == <<service_vars, motion>>

vars == <<tracker, max_age, min_hits, tracks, next_id, frame_count,
          last_op, last_dets, ret, matched, created, removed, steady,
          session_ids, hist_ids, missed, iou_threshold, matching,
          calibration, cv2_available, state, was_calibrated, cap, running,
          current, pc, updating, processed,
          map_files, current_map, saved_name,
          tracked_miniatures, capture, request, motion>>

(***************************************************************************)
(* Bounds                                                                  *)
(***************************************************************************)
MaxFrames == 3        \* update() calls since construction or the last reset()
MaxAgingFrames == 13  \* the same, in the aging specification
MaxId == 2            \* ids allocated since construction or the last reset()
MaxDets == 2          \* detections in one frame
MaxFeedFrames == 12   \* update() calls in the feed specification
MaxPoints == 5        \* correspondences stored in one CalibrationData
MaxLoopFrames == 3    \* process_frame() calls on one camera socket
MaxHistory == 4       \* samples in a history that is smoothed on its own
MaxPurgeFrames == 5   \* update() calls in the purge specification
MaxCommits == MaxDets + 1   \* pairs one _match call commits before it is cut off

MaxAges == {1}            \* max_age / max_missing
MinHits == {1}            \* min_hits, the default
AgingMaxAges == {1, 11}   \* max_age below and above the 10 of mark_missing
AgingMinHits == {1, 2}    \* min_hits

(***************************************************************************)
(* Program constants                                                       *)
(***************************************************************************)
InactiveAfter == 10          \* mark_missing: frames_missing > 10
IouThreshold == <<15, 100>>  \* iou_threshold = 0.15
DistanceThreshold == 100     \* distance_threshold = 100
MaxDistance == 100           \* SimpleTracker max_distance = 100
PositionWindow == 10         \* TrackedObject.position_history: deque(maxlen=10)
OrientationWindow == 5       \* TrackedObject.orientation_history: deque(maxlen=5)
MiniOrientationWindow == 10  \* TrackedMini.orientation_history: deque(maxlen=10)

(***************************************************************************)
(* Detections.  All boxes share one row, so every centre distance is a     *)
(* whole number of half pixels and the square root below is exact.         *)
(***************************************************************************)
BoxA == <<100, 100, 140, 140>>
BoxB == <<110, 100, 150, 140>>   \* overlaps BoxA, IoU 0.6
BoxC == <<400, 100, 440, 140>>   \* far from both

Boxes == {BoxA, BoxB, BoxC}

\* frame_processor builds "center" as ((x1+x2)//2, (y1+y2)//2)
Center(b) == <<(b[1] + b[3]) \div 2, (b[2] + b[4]) \div 2>>

\* one detection dict as frame_processor builds it; confidence is in
\* hundredths, orientation in whole degrees
Det(b, class, confidence, orientation) ==
    [bbox |-> b, center |-> Center(b), class |-> class,
     confidence |-> confidence, orientation |-> orientation]

\* the boxes branch of frame_processor: "orientation": 0.0
Detection(b) == Det(b, "miniatura", 90, 0)

Detections == {Detection(b) : b \in Boxes}

DetLists == UNION {[1..n -> Detections] : n \in 0..MaxDets}

\* a detection dict without the "bbox" key: the empty tuple stands for the
\* missing key
Malformed == [bbox |-> <<>>, center |-> <<120, 120>>, class |-> "miniatura",
              confidence |-> 90, orientation |-> 0]

NoDet == Det(<<0, 0, 0, 0>>, "none", 0, 0)
Broken == Det(<<0, 0, 0, 0>>, "broken", 0, 0)

(***************************************************************************)
(* Helpers                                                                 *)
(***************************************************************************)
Max2(a, b) == IF a >= b THEN a ELSE b
Min2(a, b) == IF a <= b THEN a ELSE b

RatLT(a, b) == a[1] * b[2] < b[1] * a[2]
RatMax(a, b) == IF RatLT(a, b) THEN b ELSE a

RECURSIVE SqrtSearch(_, _, _)
SqrtSearch(n, lo, hi) ==
    IF lo >= hi THEN lo
    ELSE LET mid == (lo + hi + 1) \div 2
         IN  IF mid * mid <= n THEN SqrtSearch(n, mid, hi)
                               ELSE SqrtSearch(n, lo, mid - 1)
\* np.sqrt(dx**2 + dy**2); the root is at most |dx| + |dy|
Abs(x) == IF x < 0 THEN -x ELSE x
Hypot(dx, dy) ==
    IF dy = 0 THEN Abs(dx)
    ELSE IF dx = 0 THEN Abs(dy)
    ELSE SqrtSearch(dx * dx + dy * dy, 0, Abs(dx) + Abs(dy))

RECURSIVE SortedIds(_)
SortedIds(S) ==
    IF S = {} THEN <<>>
    ELSE LET m == CHOOSE x \in S : \A y \in S : x <= y
         IN  <<m>> \o SortedIds(S \ {m})

Range(s) == {s[i] : i \in 1..Len(s)}

\* list.remove(x) after an "if x in list" test
Remove(s, x) == SelectSeq(s, LAMBDA y : y # x)

(***************************************************************************)
(* Angles.  Sines and cosines are in thousandths, for the multiples of 90  *)
(* degrees and for 10 and 350 degrees; arctan2 is the whole number of      *)
(* degrees where the sums lie on an axis, on a diagonal or along one of    *)
(* these angles.  The sine sums of 0, 90 and -90 degrees are exact in      *)
(* doubles; those of other angles carry a rounding error, whose sign       *)
(* decides on which side of a whole degree the double lies.                *)
(***************************************************************************)
TableAngles == {0, 10, 90, 180, 270, 350}

\* np.sin(np.radians(a)) and np.cos(np.radians(a)), a of TableAngles mod 360
Sin(a) ==
    CASE a % 360 = 90 -> 1000
      [] a % 360 = 270 -> -1000
      [] a % 360 = 10 -> 174
      [] a % 360 = 350 -> -174
      [] OTHER -> 0
Cos(a) ==
    CASE a % 360 = 0 -> 1000
      [] a % 360 = 180 -> -1000
      [] a % 360 = 10 -> 985
      [] a % 360 = 350 -> 985
      [] OTHER -> 0

\* sum(np.sin(np.radians(a)) for a in angles) and the same for np.cos
RECURSIVE sins(_)
sins(angles) == IF angles = <<>> THEN 0 ELSE Sin(Head(angles)) + sins(Tail(angles))

RECURSIVE coss(_)
coss(angles) == IF angles = <<>> THEN 0 ELSE Cos(Head(angles)) + coss(Tail(angles))

\* the vector (x, y) points along the angle a
Along(y, x, a) == y * Cos(a) = x * Sin(a) /\ x * Cos(a) + y * Sin(a) > 0

\* np.degrees(np.arctan2(y, x)), in (-180, 180]
arctan2_degrees(y, x) ==
    IF y = 0 THEN (IF x >= 0 THEN 0 ELSE 180)
    ELSE IF x = 0 THEN (IF y > 0 THEN 90 ELSE -90)
    ELSE IF y = x THEN (IF y > 0 THEN 45 ELSE -135)
    ELSE IF y = -x THEN (IF y > 0 THEN 135 ELSE -45)
    ELSE LET a == CHOOSE d \in TableAngles : Along(y, x, d)
         IN  IF a > 180 THEN a - 360 ELSE a

\* arctan2_degrees is a whole number of degrees at (x, y)
OnTable(y, x) ==
    \/ y = 0 \/ x = 0 \/ y = x \/ y = -x
    \/ \E d \in TableAngles : Along(y, x, d)

\* the signs the rounding error of the sine sum can have
Roundings(angles) ==
    IF \A i \in 1..Len(angles) : angles[i] \in {0, 90, -90} THEN {0}
    ELSE {-1, 0, 1}

\* "% 360" of the double that lies at d whole degrees, or next to it on the
\* side of rounding: a double just below 0 plus 360 rounds to 360.0
float_mod_360(d, rounding) ==
    IF d % 360 = 0 /\ rounding < 0 THEN 360 ELSE d % 360

\* TrackedObject._circular_mean and TrackedMini._smooth_angle: dividing both
\* sums by len(angles) does not change the angle
circular_mean_rounded(angles, rounding) ==
    IF angles = <<>> THEN 0
    ELSE float_mod_360(arctan2_degrees(sins(angles), coss(angles)), rounding)

\* the same for the samples whose sums are exact
circular_mean(angles) == circular_mean_rounded(angles, 0)

\* deque.append without the eviction of maxlen
deque_append_unbounded(history, x, maxlen) == Append(history, x)

\* deque(maxlen=maxlen).append(x)
deque_append(history, x, maxlen) ==
    IF Len(history) >= maxlen THEN Append(Tail(history), x)
    ELSE Append(history, x)

(***************************************************************************)
(* TrackedObject                                                           *)
(***************************************************************************)
\* the end of TrackedObject.update and of TrackedMini.update: the history
\* after the append, and its circular mean
smoothed(t, history) ==
    [t EXCEPT !.orientation_history = history,
              !.orientation = circular_mean(history)]

\* position_history and velocity of a TrackedObject just constructed
NoMotion == [position_history |-> <<>>, velocity |-> <<0, 0>>]

\* TrackedObject.update, the position history and the velocity: m is what
\* the track had, center its new center
moved(m, center) ==
    LET history == deque_append(m.position_history, center, PositionWindow)
    IN  [position_history |-> history,
         velocity |-> IF Len(history) >= 2
                      THEN <<center[1] - history[Len(history) - 1][1],
                             center[2] - history[Len(history) - 1][2]>>
                      ELSE m.velocity]

\* TrackedObject.update without "self.frames_missing = 0"
TrackedObject_update_keeps_missing(t, bbox, confidence, orientation) ==
    smoothed([t EXCEPT !.bbox = bbox,
                       !.center = Center(bbox),
                       !.confidence = confidence,
                       !.frames_tracked = t.frames_tracked + 1,
                       !.is_active = TRUE],
             deque_append(t.orientation_history, orientation, OrientationWindow))

\* TrackedObject.update, for a detection that carries an orientation
TrackedObject_update(t, bbox, confidence, orientation) ==
    smoothed([t EXCEPT !.bbox = bbox,
                       !.center = Center(bbox),
                       !.confidence = confidence,
                       !.frames_tracked = t.frames_tracked + 1,
                       !.frames_missing = 0,
                       !.is_active = TRUE],
             deque_append(t.orientation_history, orientation, OrientationWindow))

\* TrackedObject.mark_missing
mark_missing(t) ==
    LET fm == t.frames_missing + 1
    IN  [t EXCEPT !.frames_missing = fm,
                  !.is_active = IF fm > InactiveAfter THEN FALSE ELSE t.is_active]

(***************************************************************************)
(* SORTTracker                                                             *)
(***************************************************************************)
\* _create_track without "self.next_id += 1"
create_track_same_id(trks, nid, det) ==
    [trks |-> [k \in DOMAIN trks \cup {nid} |->
                  IF k = nid
                  THEN [id |-> nid, class_name |-> det.class, bbox |-> det.bbox,
                        center |-> Center(det.bbox), confidence |-> det.confidence,
                        orientation |-> det.orientation, orientation_history |-> <<>>,
                        frames_tracked |-> 0, frames_missing |-> 0, is_active |-> TRUE]
                  ELSE trks[k]],
     nid |-> nid]

\* SORTTracker._create_track: the new dict and the new next_id
create_track(trks, nid, det) ==
    LET track == [id |-> nid,
                  class_name |-> det.class,
                  bbox |-> det.bbox,
                  center |-> Center(det.bbox),
                  confidence |-> det.confidence,
                  orientation |-> det.orientation,
                  orientation_history |-> <<>>,
                  frames_tracked |-> 0,
                  frames_missing |-> 0,
                  is_active |-> TRUE]
    IN  [trks |-> [k \in DOMAIN trks \cup {nid} |->
                      IF k = nid THEN track ELSE trks[k]],
         nid |-> nid + 1]

\* the loops "for det in ...: self._create_track(det)"; idxs are the
\* detection indices to create tracks for, in order
RECURSIVE create_all(_, _, _, _, _)
RECURSIVE create_rest(_, _, _, _)
create_all(trks, nid, dets, idxs, made) ==
    IF idxs = <<>> THEN [trks |-> trks, nid |-> nid, created |-> made]
    ELSE create_rest(create_track(trks, nid, dets[Head(idxs)]), dets, Tail(idxs),
                     Append(made, <<Head(idxs), nid>>))

create_rest(c, dets, idxs, made) == create_all(c.trks, c.nid, dets, idxs, made)

\* SORTTracker._iou
iou(box1, box2) ==
    LET x1 == Max2(box1[1], box2[1])
        y1 == Max2(box1[2], box2[2])
        x2 == Min2(box1[3], box2[3])
        y2 == Min2(box1[4], box2[4])
        inter == Max2(0, x2 - x1) * Max2(0, y2 - y1)
        area1 == (box1[3] - box1[1]) * (box1[4] - box1[2])
        area2 == (box2[3] - box2[1]) * (box2[4] - box2[2])
        union == area1 + area2 - inter
    IN  IF union > 0 THEN <<inter, union>> ELSE <<0, 1>>

\* dist_matrix[i, j] * 0.5: the detection's centre is the float
\* ((x1+x2)/2, (y1+y2)/2), the track's the integer center; lengths are in
\* half pixels
\* max(0, 1 - dist / self.distance_threshold) * 0.5, dist in half pixels
half_score(dist) ==
    IF dist >= 2 * DistanceThreshold THEN <<0, 1>>
    ELSE <<2 * DistanceThreshold - dist, 4 * DistanceThreshold>>

half_dist_score(det, trk) ==
    half_score(Hypot((det.bbox[1] + det.bbox[3]) - 2 * trk.center[1],
                     (det.bbox[2] + det.bbox[4]) - 2 * trk.center[2]))

\* the cells of an nd x nt matrix in row-major order
Cells(nd, nt) ==
    [k \in 1..(nd * nt) |-> <<((k - 1) \div nt) + 1, ((k - 1) % nt) + 1>>]

\* np.zeros((nd, nt))
zeros(nd, nt) == [q \in (1..nd) \X (1..nt) |-> <<0, 1>>]

\* the double loops that fill iou_matrix and dist_matrix, and
\* combined_matrix = np.maximum(iou_matrix, dist_matrix * 0.5)
RECURSIVE fill_combined(_, _, _, _, _)
fill_combined(m, cells, trks, track_ids, dets) ==
    IF cells = <<>> THEN m
    ELSE LET q == Head(cells)
             det == dets[q[1]]
             trk == trks[track_ids[q[2]]]
         IN  fill_combined(
                 [m EXCEPT ![q] = RatMax(iou(det.bbox, trk.bbox),
                                         half_dist_score(det, trk))],
                 Tail(cells), trks, track_ids, dets)

combined_matrix(trks, track_ids, dets) ==
    fill_combined(zeros(Len(dets), Len(track_ids)),
                  Cells(Len(dets), Len(track_ids)), trks, track_ids, dets)

\* the same scan that moves on to a later cell that is as large
RECURSIVE argmax_scan_last(_, _, _)
argmax_scan_last(m, cells, best) ==
    IF cells = <<>> THEN best
    ELSE argmax_scan_last(m, Tail(cells),
                          IF RatLT(m[Head(cells)], m[best]) THEN best ELSE Head(cells))

\* np.argmax + np.unravel_index: the first maximum in row-major order, found
\* by a scan that keeps the earlier cell unless a later one is strictly larger
RECURSIVE argmax_scan(_, _, _)
argmax_scan(m, cells, best) ==
    IF cells = <<>> THEN best
    ELSE argmax_scan(m, Tail(cells),
                     IF RatLT(m[best], m[Head(cells)]) THEN Head(cells) ELSE best)

argmax(m, nd, nt) == argmax_scan(m, Tail(Cells(nd, nt)), <<1, 1>>)

\* the invalidation of every cell of the matrix
zero_cells_all(m, cells) == [q \in DOMAIN m |-> <<0, 1>>]

\* iou_matrix[det_idx, :] = 0 and iou_matrix[:, trk_idx] = 0
RECURSIVE zero_cells(_, _)
zero_cells(m, cells) ==
    IF cells = <<>> THEN m
    ELSE zero_cells([m EXCEPT ![Head(cells)] = <<0, 1>>], Tail(cells))

\* the row and the column of cell p, invalidated
zero_row_col(m, nd, nt, p) ==
    zero_cells(m, SelectSeq(Cells(nd, nt), LAMBDA q : q[1] = p[1] \/ q[2] = p[2]))

\* the four lists of _match after the pair of cell p is committed
commit(acc, track_ids, p) ==
    [matched_det |-> Append(acc.matched_det, p[1]),
     matched_trk |-> Append(acc.matched_trk, track_ids[p[2]]),
     unmatched_det |-> Remove(acc.unmatched_det, p[1]),
     unmatched_trk |-> Remove(acc.unmatched_trk, track_ids[p[2]])]

\* the "while True" loop of SORTTracker._match; match_step is one pass of
\* its body for the cell p that np.argmax found
RECURSIVE match_loop(_, _, _, _, _)
RECURSIVE match_step(_, _, _, _, _, _)
match_loop(m, track_ids, nd, thr, acc) ==
    match_step(m, track_ids, nd, thr, acc, argmax(m, nd, Len(track_ids)))

match_step(m, track_ids, nd, thr, acc, p) ==
    IF RatLT(m[p], thr) THEN acc
    ELSE match_loop(zero_row_col(m, nd, Len(track_ids), p), track_ids, nd, thr,
                    commit(acc, track_ids, p))

\* SORTTracker._match
match_start(track_ids, num_det) ==
    [matched_det |-> <<>>, matched_trk |-> <<>>,
     unmatched_det |-> [i \in 1..num_det |-> i],
     unmatched_trk |-> track_ids]

\* _match with the early return taken always: no pair is ever committed
match_never(m, track_ids, num_det) == match_start(track_ids, num_det)

match(m, track_ids, num_det) ==
    IF num_det = 0 \/ Len(track_ids) = 0 THEN match_start(track_ids, num_det)
    ELSE match_loop(m, track_ids, num_det, IouThreshold,
                    match_start(track_ids, num_det))

\* no _match call is running
no_match == [pc |-> "idle"]

\* the locals of a _match call on entering its "while True" loop: the matrix
\* it overwrites, the four lists, and a copy of the scores it was given
match_entry(m, track_ids, num_det) ==
    [pc |-> "loop", scores |-> m, iou_matrix |-> m,
     track_ids |-> track_ids, num_det |-> num_det,
     lists |-> match_start(track_ids, num_det)]

\* one pass of the loop for the cell p that np.argmax found: break, or commit
\* the pair and invalidate its row and column
match_pass(l, thr, p) ==
    IF RatLT(l.iou_matrix[p], thr) THEN [l EXCEPT !.pc = "done"]
    ELSE [l EXCEPT !.iou_matrix = zero_row_col(@, l.num_det, Len(l.track_ids), p),
                   !.lists = commit(@, l.track_ids, p)]

\* SORTTracker._cleanup
cleanup(trks, maxAge) ==
    [k \in {j \in DOMAIN trks :
                ~(~trks[j].is_active \/ trks[j].frames_missing > maxAge)} |-> trks[k]]

\* SORTTracker._get_active_tracks
get_active_tracks(trks, minHits) ==
    SelectSeq(SortedIds(DOMAIN trks),
              LAMBDA k : trks[k].is_active /\ trks[k].frames_tracked >= minHits)

\* "for det_idx, trk_id in zip(matched_det, matched_trk): ...update(...)"
RECURSIVE update_matched(_, _, _, _)
update_matched(trks, dets, matched_det, matched_trk) ==
    IF matched_det = <<>> \/ matched_trk = <<>> THEN trks
    ELSE LET det == dets[Head(matched_det)]
             k == Head(matched_trk)
         IN  update_matched(
                 [trks EXCEPT ![k] = TrackedObject_update(trks[k], det.bbox, det.confidence,
                                                          det.orientation)],
                 dets, Tail(matched_det), Tail(matched_trk))

\* "for trk_id in unmatched_trk: self.tracks[trk_id].mark_missing()"
RECURSIVE mark_unmatched(_, _)
mark_unmatched(trks, unmatched_trk) ==
    IF unmatched_trk = <<>> THEN trks
    ELSE mark_unmatched([trks EXCEPT ![Head(unmatched_trk)] = mark_missing(@)],
                        Tail(unmatched_trk))

\* the pairs of zip(matched_det, matched_trk)
zip(xs, ys) == [i \in 1..Min2(Len(xs), Len(ys)) |-> <<xs[i], ys[i]>>]

\* SORTTracker.update, lines 153-198, for the result r of _match: update the
\* matched tracks, mark the unmatched ones, create the new ones
apply_match(trks, nid, dets, r) ==
    [after |-> create_all(
                   mark_unmatched(
                       update_matched(trks, dets, r.matched_det, r.matched_trk),
                       r.unmatched_trk),
                   nid, dets, r.unmatched_det, <<>>),
     matched |-> zip(r.matched_det, r.matched_trk)]

match_tracks(trks, track_ids, dets) ==
    match(combined_matrix(trks, track_ids, dets), track_ids, Len(dets))

\* SORTTracker.update up to, and without, the final _cleanup(): the dict,
\* next_id, the association of this frame and whether _cleanup() follows
associated(c, mtch, cleans) ==
    [trks |-> c.trks, nid |-> c.nid, matched |-> mtch,
     created |-> c.created, cleans |-> cleans]

matched_branch(am) == associated(am.after, am.matched, TRUE)

sort_associate(trks, nid, dets) ==
    IF dets = <<>> THEN
        [trks |-> [k \in DOMAIN trks |-> mark_missing(trks[k])], nid |-> nid,
         matched |-> <<>>, created |-> <<>>, cleans |-> FALSE]
    ELSE IF DOMAIN trks = {} THEN
        associated(create_all(trks, nid, dets, [i \in 1..Len(dets) |-> i], <<>>),
                   <<>>, FALSE)
    ELSE
        matched_branch(
            apply_match(trks, nid, dets,
                        match_tracks(trks, SortedIds(DOMAIN trks), dets)))

\* the tracks of trks that are no longer in final
Deleted(trks, final) == [k \in DOMAIN trks \ DOMAIN final |-> trks[k]]

\* the end of SORTTracker.update: _cleanup() and _get_active_tracks()
returned(a, final, minHits) ==
    [trks |-> final, nid |-> a.nid, matched |-> a.matched,
     created |-> a.created, removed |-> Deleted(a.trks, final),
     ret |-> get_active_tracks(final, minHits)]

finish(a, maxAge, minHits) ==
    returned(a, IF a.cleans THEN cleanup(a.trks, maxAge) ELSE a.trks, minHits)

\* SORTTracker.update
sort_update(trks, nid, dets, maxAge, minHits) ==
    finish(sort_associate(trks, nid, dets), maxAge, minHits)

\* SORTTracker.__init__ and SimpleTracker.__init__: the dict, next_id and
\* (SORTTracker only) frame_count of a new tracker
constructed == [trks |-> <<>>, nid |-> 1, frame_count |-> 0]

\* reset without "self.next_id = 1"
sort_reset_keeps_next_id(trks, nid, fc) ==
    [trks |-> <<>>, nid |-> nid, frame_count |-> 0]

\* SORTTracker.reset: the dict, next_id and frame_count it leaves
sort_reset(trks, nid, fc) == [trks |-> <<>>, nid |-> 1, frame_count |-> 0]

(***************************************************************************)
(* TrackedMini and SimpleTracker.  None stands for Python's None.          *)
(***************************************************************************)
None == 0

\* TrackedMini.update
TrackedMini_update(t, bbox, orientation, confidence) ==
    smoothed([t EXCEPT !.bbox = bbox,
                       !.center = Center(bbox),
                       !.confidence = confidence,
                       !.frames_missing = 0],
             deque_append(t.orientation_history, orientation, MiniOrientationWindow))

\* the same loop without "if tid in used_tracks: continue"
RECURSIVE best_track_ignores_used(_, _, _, _, _, _)
best_track_ignores_used(trks, ids, used, det, best_id, best_dist) ==
    IF ids = <<>> THEN best_id
    ELSE IF (best_id = None
             \/ Hypot(det.center[1] - trks[Head(ids)].center[1],
                      det.center[2] - trks[Head(ids)].center[2]) < best_dist)
            /\ Hypot(det.center[1] - trks[Head(ids)].center[1],
                     det.center[2] - trks[Head(ids)].center[2]) < MaxDistance
    THEN best_track_ignores_used(trks, Tail(ids), used, det, Head(ids),
             Hypot(det.center[1] - trks[Head(ids)].center[1],
                   det.center[2] - trks[Head(ids)].center[2]))
    ELSE best_track_ignores_used(trks, Tail(ids), used, det, best_id, best_dist)

\* the loop "for tid, track in self.tracks.items()" of SimpleTracker.update:
\* best_track_id; best_dist is read only once best_id is set (it starts at inf)
RECURSIVE best_track(_, _, _, _, _, _)
best_track(trks, ids, used, det, best_id, best_dist) ==
    IF ids = <<>> THEN best_id
    ELSE LET tid == Head(ids)
             dist == Hypot(det.center[1] - trks[tid].center[1],
                           det.center[2] - trks[tid].center[2])
         IN  IF tid \in used
             THEN best_track(trks, Tail(ids), used, det, best_id, best_dist)
             ELSE IF (best_id = None \/ dist < best_dist) /\ dist < MaxDistance
             THEN best_track(trks, Tail(ids), used, det, tid, dist)
             ELSE best_track(trks, Tail(ids), used, det, best_id, best_dist)

\* the loop "for det in detections" of SimpleTracker.update, from detection
\* i; simple_step is its body once best_track_id is known
RECURSIVE simple_loop(_, _, _, _, _, _, _)
RECURSIVE simple_step(_, _, _, _, _, _, _, _)
simple_loop(trks, nid, dets, i, used, mtch, made) ==
    IF i > Len(dets)
    THEN [trks |-> trks, nid |-> nid, matched |-> mtch, created |-> made]
    ELSE simple_step(trks, nid, dets, i, used, mtch, made,
             best_track(trks, SortedIds(DOMAIN trks), used, dets[i], None, 0))

simple_step(trks, nid, dets, i, used, mtch, made, best_track_id) ==
    IF best_track_id # None
    THEN simple_loop(
             [trks EXCEPT ![best_track_id] =
                 TrackedMini_update(@, dets[i].bbox, dets[i].orientation,
                                    dets[i].confidence)],
             nid, dets, i + 1, used \cup {best_track_id},
             Append(mtch, <<i, best_track_id>>), made)
    ELSE simple_loop(
             [k \in DOMAIN trks \cup {nid} |->
                 IF k = nid
                 THEN [id |-> nid,
                       bbox |-> dets[i].bbox,
                       center |-> dets[i].center,
                       orientation |-> dets[i].orientation,
                       confidence |-> dets[i].confidence,
                       orientation_history |-> <<>>,
                       frames_missing |-> 0]
                 ELSE trks[k]],
             nid + 1, dets, i + 1, used \cup {nid},
             mtch, Append(made, <<i, nid>>))

\* _cleanup that removes a track as soon as it reaches max_missing
simple_cleanup_at_max_missing(trks, maxMissing) ==
    [k \in {j \in DOMAIN trks : ~(trks[j].frames_missing >= maxMissing)} |-> trks[k]]

\* SimpleTracker._cleanup
simple_cleanup(trks, maxMissing) ==
    [k \in {j \in DOMAIN trks : ~(trks[j].frames_missing > maxMissing)} |-> trks[k]]

\* "for track in self.tracks.values(): track.frames_missing += 1"
age_all(trks) ==
    [k \in DOMAIN trks |-> [trks[k] EXCEPT !.frames_missing = @ + 1]]

\* the end of SimpleTracker.update: the list of the tracks _cleanup() left
simple_returned(l, final) ==
    [trks |-> final, nid |-> l.nid, matched |-> l.matched,
     created |-> l.created, removed |-> Deleted(l.trks, final),
     ret |-> SortedIds(DOMAIN final)]

simple_finish(l, maxMissing) ==
    simple_returned(l, simple_cleanup(l.trks, maxMissing))

\* SimpleTracker.update
simple_update(trks, nid, dets, maxMissing) ==
    simple_finish(
        IF dets = <<>>
        THEN [trks |-> age_all(trks), nid |-> nid,
              matched |-> <<>>, created |-> <<>>]
        ELSE simple_loop(age_all(trks), nid, dets, 1, {}, <<>>, <<>>),
        maxMissing)

\* SimpleTracker.reset: the dict and next_id it leaves
simple_reset(trks, nid) == [trks |-> <<>>, nid |-> 1]

(***************************************************************************)
(* Detections without a box.  d["bbox"] raises KeyError: in SORTTracker    *)
(* while det_boxes is built, before any track is touched; in SimpleTracker *)
(* inside the loop, after the tracks were aged and the detections in front *)
(* of the malformed one were processed, and before _cleanup().             *)
(***************************************************************************)
has_bbox(det) == det.bbox # <<>>

raises_KeyError(dets) == \E i \in 1..Len(dets) : ~has_bbox(dets[i])

\* the detections in front of the first one without a box
before_KeyError(dets) ==
    SubSeq(dets, 1, (CHOOSE i \in 1..Len(dets) :
                        /\ ~has_bbox(dets[i])
                        /\ \A j \in 1..(i - 1) : has_bbox(dets[j])) - 1)

\* the detections that carry a box, in order
well_formed(dets) == SelectSeq(dets, has_bbox)

\* what SORTTracker.update leaves when it raises
sort_raised(trks, nid) ==
    [trks |-> trks, nid |-> nid, matched |-> <<>>, created |-> <<>>]

\* what SimpleTracker.update leaves when it raises
simple_raised(trks, nid, dets) ==
    simple_loop(age_all(trks), nid, before_KeyError(dets), 1, {}, <<>>, <<>>)

(***************************************************************************)
(* CalibrationData and the calibration methods of CameraManager.  Every    *)
(* correspondence of this model lies on the scaling of the frame onto the  *)
(* configured board, so the homography through four of them in general     *)
(* position is that scaling; it is kept as its two factors, in lowest      *)
(* terms.  The empty tuple stands for "homography_matrix is None".         *)
(***************************************************************************)
FrameWidth == 1280    \* CameraManager.frame_width
FrameHeight == 720    \* CameraManager.frame_height
GameWidth == 1920     \* CalibrationData.game_width
GameHeight == 1080    \* CalibrationData.game_height

NoHomography == <<>>

\* CalibrationData()
CalibrationData ==
    [image_points |-> <<>>, game_points |-> <<>>,
     homography_matrix |-> NoHomography,
     game_width |-> GameWidth, game_height |-> GameHeight,
     is_calibrated |-> FALSE]

RECURSIVE GCD(_, _)
GCD(a, b) == IF b = 0 THEN a ELSE GCD(b, a % b)

\* the fraction n / d in lowest terms, d > 0
Rat(n, d) == <<n \div GCD(n, d), d \div GCD(n, d)>>

Collinear(a, b, c) ==
    (b[1] - a[1]) * (c[2] - a[2]) = (b[2] - a[2]) * (c[1] - a[1])

\* four of the points are distinct with no three of them on a line
GeneralPosition(points) ==
    \E S \in SUBSET Range(points) :
        /\ Cardinality(S) = 4
        /\ \A a, b, c \in S : a # b /\ a # c /\ b # c => ~Collinear(a, b, c)

\* cv2.findHomography(src, dst) for correspondences in general position that
\* lie on one scaling: the factors of the scaling
findHomography(src, dst) ==
    LET i == CHOOSE k \in 1..Len(src) : src[k][1] # 0 /\ src[k][2] # 0
    IN  <<Rat(dst[i][1], src[i][1]), Rat(dst[i][2], src[i][2])>>

\* what findHomography can do with src and dst: return the matrix, or, for
\* degenerate points, return None or raise
Outcomes(src, dst) ==
    IF GeneralPosition(src) /\ GeneralPosition(dst) THEN {"matrix"}
    ELSE {"none", "raise"}

\* cv2.perspectiveTransform of the point (px, py)
perspectiveTransform(H, px, py) ==
    <<(px * H[1][1]) \div H[1][2], (py * H[2][1]) \div H[2][2]>>

\* CalibrationData.calculate_homography: the CalibrationData it leaves and
\* what it returns; outcome is what findHomography does if it is called
calculate_homography(c, cv2, outcome) ==
    IF ~cv2 THEN [cal |-> c, ret |-> FALSE]
    ELSE IF Len(c.image_points) < 4 \/ Len(c.game_points) < 4
    THEN [cal |-> c, ret |-> FALSE]
    ELSE IF outcome = "raise" THEN [cal |-> c, ret |-> FALSE]
    ELSE IF outcome = "none"
    THEN [cal |-> [c EXCEPT !.homography_matrix = NoHomography,
                            !.is_calibrated = FALSE],
          ret |-> FALSE]
    ELSE [cal |-> [c EXCEPT !.homography_matrix =
                                findHomography(c.image_points, c.game_points),
                            !.is_calibrated = TRUE],
          ret |-> TRUE]

\* CalibrationData.transform_point
transform_point(c, cv2, px, py) ==
    IF ~cv2 THEN <<px, py>>
    ELSE IF c.homography_matrix # NoHomography
    THEN perspectiveTransform(c.homography_matrix, px, py)
    ELSE <<px, py>>

\* start_calibration that keeps the homography of the session before
start_calibration_keeps_homography(c) ==
    [c EXCEPT !.image_points = <<>>, !.game_points = <<>>]

\* CameraManager.start_calibration: the new self.calibration
start_calibration(c) == CalibrationData

\* add_calibration_point that stores the image point only
add_calibration_point_image_only(c, image_xy, game_xy) ==
    [cal |-> [c EXCEPT !.image_points = Append(@, image_xy)],
     ret |-> Len(c.image_points) + 1]

\* CameraManager.add_calibration_point
add_calibration_point(c, image_xy, game_xy) ==
    [cal |-> [c EXCEPT !.image_points = Append(@, image_xy),
                       !.game_points = Append(@, game_xy)],
     ret |-> Len(c.image_points) + 1]

\* the four corners of a width x height rectangle, in the order of
\* set_simple_calibration
Corners(width, height) ==
    <<<<0, 0>>, <<width, 0>>, <<width, height>>, <<0, height>>>>

\* set_simple_calibration that adds the corners to the points stored before
simple_points_appended(c, game_width, game_height) ==
    [c EXCEPT !.game_width = game_width,
              !.game_height = game_height,
              !.image_points = @ \o Corners(FrameWidth, FrameHeight),
              !.game_points = @ \o Corners(game_width, game_height)]

\* CameraManager.set_simple_calibration up to calculate_homography()
simple_points(c, game_width, game_height) ==
    [c EXCEPT !.game_width = game_width,
              !.game_height = game_height,
              !.image_points = Corners(FrameWidth, FrameHeight),
              !.game_points = Corners(game_width, game_height)]

(***************************************************************************)
(* ArucoDetector._pixel_to_game_coords (vision/detector.py); its           *)
(* homography_matrix is never assigned after __init__ sets it to None.     *)
(***************************************************************************)
DetectorFrameWidth == 1280   \* ArucoDetector.frame_width
DetectorFrameHeight == 720   \* ArucoDetector.frame_height
PlayAreaWidth == 1920        \* ArucoDetector.play_area["width"]
PlayAreaHeight == 1080       \* ArucoDetector.play_area["height"]

pixel_to_game_coords(px, py) ==
    <<(px * PlayAreaWidth) \div DetectorFrameWidth,
      (py * PlayAreaHeight) \div DetectorFrameHeight>>

(***************************************************************************)
(* Bookkeeping shared by the actions                                       *)
(***************************************************************************)
\* the detection fed alone in every frame so far, Broken otherwise
next_steady(dets) ==
    IF Len(dets) = 1 /\ (steady = NoDet \/ steady = dets[1]) THEN dets[1]
    ELSE Broken

Ids(pairs) == {pairs[i][2] : i \in 1..Len(pairs)}
Idxs(pairs) == {pairs[i][1] : i \in 1..Len(pairs)}

(***************************************************************************)
(* The event loop of /ws/camera (server/main.py).  websocket_camera and    *)
(* every stream_ip_camera task it creates are coroutines of one asyncio    *)
(* loop: a coroutine keeps the loop from the await that resumed it to its  *)
(* next await.  frame_processor.process_frame is a plain function, called  *)
(* without await: the caller keeps the loop through tracker.update().      *)
(***************************************************************************)
IpTasks == {"ip1", "ip2"}       \* the stream_ip_camera tasks created
Tasks == {"ws"} \cup IpTasks     \* websocket_camera and its tasks

\* the messages websocket_camera reads that decide what it does next
Messages == {"frame", "connect_ip_camera", "get_status"}

\* who holds the loop while process_frame runs for the coroutine t, were
\* the call handed to a worker thread and awaited
to_thread_process_frame(t) == "none"

\* who holds the loop while process_frame runs for the coroutine t
call_process_frame(t) == t

\* where websocket_camera goes with the message it received
dispatch(msg) ==
    CASE msg = "frame" -> "frame"
      [] msg = "connect_ip_camera" -> "create_task"
      [] OTHER -> "send"

(***************************************************************************)
(* The map store of GameStateManager (server/game_state.py): one JSON file *)
(* per map id under config/maps.  A request body is a dict; a stored map   *)
(* is what MapModel(body).model_dump() keeps of it, here id and name.    *)
(***************************************************************************)
NoId == ""       \* MapModel.id is None, or an id that "model.id or ..." skips
NoMap == <<>>    \* get_map returns None; state.current_map is None

DefaultName == "Mapa sin nombre"   \* MapModel.name

\* MapModel(body): the fields it keeps, with their defaults
MapModel(body) ==
    [id |-> IF "id" \in DOMAIN body THEN body.id ELSE NoId,
     name |-> IF "name" \in DOMAIN body THEN body.name ELSE DefaultName]

\* MapModel(body) raises: the only width among the bodies is not a number
raises_ValidationError(body) == "width" \in DOMAIN body

\* json.dump(out, open(<map_id>.json, 'w'))
write(files, map_id, out) ==
    [i \in DOMAIN files \cup {map_id} |-> IF i = map_id THEN out ELSE files[i]]

\* save_map that names the file by the id of the request
save_map_by_request_id(files, body, uuid) ==
    LET model == MapModel(body)
        map_id == IF model.id # NoId THEN model.id ELSE uuid
    IN  [files |-> write(files, model.id, [model EXCEPT !.id = map_id]),
         ret |-> [id |-> map_id, status |-> "saved"]]

\* GameStateManager.save_map of a body that validates; uuid is what
\* str(uuid.uuid4())[:8] gives
save_map(files, body, uuid) ==
    LET model == MapModel(body)
        map_id == IF model.id # NoId THEN model.id ELSE uuid
    IN  [files |-> write(files, map_id, [model EXCEPT !.id = map_id]),
         ret |-> [id |-> map_id, status |-> "saved"]]

\* GameStateManager.get_map
get_map(files, map_id) ==
    IF map_id \notin DOMAIN files THEN NoMap
    ELSE MapModel(files[map_id])

\* GameStateManager.delete_map
delete_map(files, map_id) ==
    IF map_id \in DOMAIN files
    THEN [files |-> [i \in DOMAIN files \ {map_id} |-> files[i]], ret |-> TRUE]
    ELSE [files |-> files, ret |-> FALSE]

\* GameStateManager.set_current_map
set_current_map(files, cur, map_id) ==
    LET map_data == get_map(files, map_id)
    IN  IF map_data = NoMap THEN [current_map |-> cur, ret |-> FALSE]
        ELSE [current_map |-> map_data, ret |-> TRUE]

(***************************************************************************)
(* The miniatures of CameraManager (server/camera_manager.py).             *)
(* tracked_miniatures is a dict, here the sequence of its values in        *)
(* insertion order.  _update_tracking runs in the capture thread, the      *)
(* endpoints of main.py in the thread of the event loop; the interpreter   *)
(* can switch threads between two steps of a loop.  A dict iterator        *)
(* remembers the size of the dict and raises RuntimeError at the next step *)
(* if the size has changed.                                                *)
(***************************************************************************)
MarkerIds == {1, 2}
NoPlayer == ""   \* TrackedMiniature.player_id is None

\* TrackedMiniature(marker_id=marker_id)
TrackedMiniature(marker_id) ==
    [marker_id |-> marker_id, player_id |-> NoPlayer, is_visible |-> TRUE]

\* "marker_id in self.tracked_miniatures"
Tracked(d, marker_id) == \E i \in 1..Len(d) : d[i].marker_id = marker_id

\* "if marker_id not in self.tracked_miniatures:
\*      self.tracked_miniatures[marker_id] = TrackedMiniature(...)"
setdefault(d, marker_id) ==
    IF Tracked(d, marker_id) THEN d ELSE Append(d, TrackedMiniature(marker_id))

\* the dict after update_position of the miniature marker_id
update_position(d, marker_id) ==
    [i \in 1..Len(d) |->
        IF d[i].marker_id = marker_id THEN [d[i] EXCEPT !.is_visible = TRUE]
        ELSE d[i]]

\* assign_player_to_miniature(marker_id, player_id, ...)
assign_player_to_miniature(d, marker_id, player_id) ==
    [i \in 1..Len(setdefault(d, marker_id)) |->
        IF setdefault(d, marker_id)[i].marker_id = marker_id
        THEN [setdefault(d, marker_id)[i] EXCEPT !.player_id = player_id]
        ELSE setdefault(d, marker_id)[i]]

\* iter(d.items()) / iter(d.values()): the position and the size remembered
iter(d) == [pos |-> 0, size |-> Len(d)]

\* next(it) raises "dictionary changed size during iteration"
raises_RuntimeError(d, it) == Len(d) # it.size

\* a thread that is in none of the methods
Outside == [pc |-> "outside", markers |-> <<>>, seen |-> {}, it |-> iter(<<>>),
            out |-> <<>>]

(***************************************************************************)
(* The camera of CameraManager (server/camera_manager.py): cap is None     *)
(* ("none") or a cv2.VideoCapture that is opened ("open") or not           *)
(* ("closed"); _running says the capture thread is to run.  Each operator  *)
(* gives what the method leaves: cap, state, _running and what it returns. *)
(***************************************************************************)
NoCap == "none"

\* what cv2.VideoCapture(...) does in connect(): a capture that opened, one
\* that did not, or an exception
ConnectOutcomes == {"open", "closed", "raise"}

\* CameraManager.connect
connect(cv2, c, outcome) ==
    IF ~cv2 THEN [cap |-> c, state |-> "error", ret |-> FALSE]
    ELSE IF outcome = "raise" THEN [cap |-> c, state |-> "error", ret |-> FALSE]
    ELSE IF outcome = "closed"
    THEN [cap |-> "closed", state |-> "error", ret |-> FALSE]
    ELSE [cap |-> "open", state |-> "connected", ret |-> TRUE]

\* CameraManager.stop_streaming
stop_streaming(st) ==
    [running |-> FALSE, state |-> IF st = "streaming" THEN "connected" ELSE st]

\* CameraManager.disconnect
disconnect(st) ==
    [cap |-> NoCap, running |-> stop_streaming(st).running,
     state |-> "disconnected"]

\* CameraManager.start_streaming
start_streaming(cv2, st, c, run) ==
    IF ~cv2 THEN [running |-> run, state |-> st, ret |-> FALSE]
    ELSE IF st # "connected" /\ c # "open"
    THEN [running |-> run, state |-> st, ret |-> FALSE]
    ELSE IF run THEN [running |-> run, state |-> st, ret |-> TRUE]
    ELSE [running |-> TRUE, state |-> "streaming", ret |-> TRUE]

(***************************************************************************)
(* Actions                                                                 *)
(***************************************************************************)
\* no _match call is run on its own
NoMatch ==
    /\ iou_threshold = IouThreshold
    /\ matching = no_match

\* CameraManager.__init__, on a server with OpenCV
NoCamera ==
    /\ calibration = CalibrationData
    /\ cv2_available = TRUE
    /\ state = "disconnected"
    /\ was_calibrated = FALSE
    /\ cap = NoCap
    /\ running = FALSE

\* no socket is connected to /ws/camera
NoLoop ==
    /\ current = "none"
    /\ pc = [t \in Tasks |-> "unborn"]
    /\ updating = {}
    /\ processed = 0

\* no map was saved and none is projected
NoMaps ==
    /\ map_files = <<>>
    /\ current_map = NoMap
    /\ saved_name = <<>>

\* CameraManager.__init__: no miniature, no capture thread, no request
NoTracking ==
    /\ tracked_miniatures = <<>>
    /\ capture = Outside
    /\ request = Outside

NoServer ==
    /\ NoLoop
    /\ NoMaps
    /\ NoTracking
    /\ motion = <<>>

\* the tracker as constructed, before any call
FreshTracker ==
    /\ tracks = constructed.trks
    /\ next_id = constructed.nid
    /\ frame_count = constructed.frame_count
    /\ last_op = "init"
    /\ last_dets = <<>>
    /\ ret = <<>>
    /\ matched = <<>>
    /\ created = <<>>
    /\ removed = <<>>
    /\ steady = NoDet
    /\ session_ids = {}
    /\ hist_ids = {}
    /\ missed = <<>>

Fresh ==
    /\ NoMatch
    /\ NoCamera
    /\ NoServer
    /\ FreshTracker

\* SORTTracker(max_age, min_hits) or SimpleTracker(max_missing=max_age)
Init ==
    /\ \/ tracker = "SORTTracker" /\ min_hits \in MinHits
       \/ tracker = "SimpleTracker" /\ min_hits = 1
    /\ max_age \in MaxAges
    /\ Fresh

\* the calls in a row that did not match each track u.trks keeps
next_missed(u) ==
    [k \in DOMAIN u.trks |->
        IF k \in Ids(u.matched) \cup Ids(u.created) THEN 0 ELSE missed[k] + 1]

\* update(dets) returns with the result u
Returns(dets, u) ==
    /\ u.nid - 1 <= MaxId
    /\ tracks' = u.trks
    /\ next_id' = u.nid
    /\ last_op' = "update"
    /\ last_dets' = dets
    /\ ret' = u.ret
    /\ matched' = u.matched
    /\ created' = u.created
    /\ removed' = u.removed
    /\ session_ids' = session_ids \cup Ids(u.created)
    /\ hist_ids' = hist_ids \cup Ids(u.created)
    /\ missed' = next_missed(u)

\* update(dets) raises KeyError and leaves u behind
Raises(dets, u) ==
    /\ u.nid - 1 <= MaxId
    /\ tracks' = u.trks
    /\ next_id' = u.nid
    /\ last_op' = "raise"
    /\ last_dets' = dets
    /\ ret' = <<>>
    /\ matched' = u.matched
    /\ created' = u.created
    /\ removed' = <<>>
    /\ session_ids' = session_ids \cup Ids(u.created)
    /\ hist_ids' = hist_ids \cup Ids(u.created)
    /\ missed' = next_missed(u)

\* SORTTracker.update(dets), for dets of lists and at most horizon frames,
\* but for the position history and the velocity of the tracks
SORTUpdateTracks(lists, horizon) ==
    /\ tracker = "SORTTracker"
    /\ frame_count < horizon
    /\ \E dets \in lists :
        /\ IF raises_KeyError(dets)
           THEN Raises(dets, sort_raised(tracks, next_id))
           ELSE Returns(dets, sort_update(tracks, next_id, dets, max_age, min_hits))
        /\ frame_count' = frame_count + 1
        /\ steady' = next_steady(dets)
    /\ UNCHANGED <<tracker, max_age, min_hits, match_vars, camera_vars, service_vars>>

\* the same where the position history and the velocity are not followed
SORTUpdateWith(lists, horizon) ==
    /\ SORTUpdateTracks(lists, horizon)
    /\ UNCHANGED motion

SORTUpdate == SORTUpdateWith(DetLists, MaxFrames)

\* SORTTracker.reset()
SORTReset ==
    /\ tracker = "SORTTracker"
    /\ tracks' = sort_reset(tracks, next_id, frame_count).trks
    /\ next_id' = sort_reset(tracks, next_id, frame_count).nid
    /\ frame_count' = sort_reset(tracks, next_id, frame_count).frame_count
    /\ last_op' = "reset"
    /\ last_dets' = <<>>
    /\ ret' = <<>>
    /\ matched' = <<>>
    /\ created' = <<>>
    /\ removed' = <<>>
    /\ steady' = NoDet
    /\ session_ids' = {}
    /\ missed' = <<>>
    /\ UNCHANGED <<tracker, max_age, min_hits, hist_ids, match_vars, camera_vars, server_vars>>

\* SimpleTracker.update(dets), for dets of lists and at most horizon frames
SimpleUpdateWith(lists, horizon) ==
    /\ tracker = "SimpleTracker"
    /\ frame_count < horizon
    /\ \E dets \in lists :
        IF raises_KeyError(dets)
        THEN Raises(dets, simple_raised(tracks, next_id, dets))
        ELSE Returns(dets, simple_update(tracks, next_id, dets, max_age))
    /\ frame_count' = frame_count + 1
    /\ UNCHANGED <<tracker, max_age, min_hits, steady, match_vars, camera_vars, server_vars>>

SimpleUpdate == SimpleUpdateWith(DetLists, MaxFrames)

\* SimpleTracker.reset()
SimpleReset ==
    /\ tracker = "SimpleTracker"
    /\ tracks' = simple_reset(tracks, next_id).trks
    /\ next_id' = simple_reset(tracks, next_id).nid
    /\ frame_count' = 0
    /\ last_op' = "reset"
    /\ last_dets' = <<>>
    /\ ret' = <<>>
    /\ matched' = <<>>
    /\ created' = <<>>
    /\ removed' = <<>>
    /\ session_ids' = {}
    /\ missed' = <<>>
    /\ UNCHANGED <<tracker, max_age, min_hits, steady, hist_ids,
                   match_vars, camera_vars, server_vars>>

Next == SORTUpdate \/ SORTReset \/ SimpleUpdate \/ SimpleReset

Spec == Init /\ [][Next]_vars

(***************************************************************************)
(* Aging: one SORTTracker with max_age above the 10 of mark_missing, fed   *)
(* one detection or none per frame for long enough to age a track out.     *)
(***************************************************************************)
AgingLists == {<<>>, <<Detection(BoxA)>>, <<Detection(BoxC)>>}

InitAging ==
    /\ tracker = "SORTTracker"
    /\ min_hits \in AgingMinHits
    /\ max_age \in AgingMaxAges
    /\ Fresh

SORTUpdateAging == SORTUpdateWith(AgingLists, MaxAgingFrames)

NextAging == SORTUpdateAging \/ SORTReset

SpecAging == InitAging /\ [][NextAging]_vars

(***************************************************************************)
(* The greedy loop of SORTTracker._match, one pass per step.  Init is the  *)
(* second update() of a tracker: the first frame created the tracks, the   *)
(* second has reached the "while True" of _match with its combined_matrix. *)
(***************************************************************************)
IouThresholds == {<<0, 1>>, IouThreshold}   \* iou_threshold = 0 and the default

InitMatch ==
    /\ tracker = "SORTTracker"
    /\ max_age \in MaxAges
    /\ min_hits \in MinHits
    /\ iou_threshold \in IouThresholds
    /\ \E first \in DetLists \ {<<>>}, dets \in DetLists \ {<<>>} :
        /\ tracks = sort_update(<<>>, 1, first, max_age, min_hits).trks
        /\ next_id = Len(first) + 1
        /\ last_dets = dets
        /\ matching = match_entry(
               combined_matrix(tracks, SortedIds(DOMAIN tracks), dets),
               SortedIds(DOMAIN tracks), Len(dets))
    /\ frame_count = 2
    /\ last_op = "match"
    /\ ret = <<>>
    /\ matched = <<>>
    /\ created = <<>>
    /\ removed = <<>>
    /\ steady = Broken
    /\ session_ids = DOMAIN tracks
    /\ hist_ids = DOMAIN tracks
    /\ missed = [k \in DOMAIN tracks |-> 0]
    /\ NoCamera
    /\ NoServer

\* the cell np.argmax finds in the matrix of the running call
found == argmax(matching.iou_matrix, matching.num_det, Len(matching.track_ids))

\* one pass that commits a pair
MatchCommit ==
    /\ matching.pc = "loop"
    /\ Len(matching.lists.matched_det) < MaxCommits
    /\ ~RatLT(matching.iou_matrix[found], iou_threshold)
    /\ matching' = match_pass(matching, iou_threshold, found)
    /\ UNCHANGED <<tracker, max_age, min_hits, tracks, next_id, frame_count,
                   last_op, last_dets, ret, matched, created, removed, steady,
                   session_ids, hist_ids, missed, iou_threshold, camera_vars, server_vars>>

\* the pass that takes the "break"
MatchBreak ==
    /\ matching.pc = "loop"
    /\ RatLT(matching.iou_matrix[found], iou_threshold)
    /\ matching' = match_pass(matching, iou_threshold, found)
    /\ UNCHANGED <<tracker, max_age, min_hits, tracks, next_id, frame_count,
                   last_op, last_dets, ret, matched, created, removed, steady,
                   session_ids, hist_ids, missed, iou_threshold, camera_vars, server_vars>>

NextMatch == MatchCommit \/ MatchBreak

SpecMatch == InitMatch /\ [][NextMatch]_vars

(***************************************************************************)
(* Malformed input: either tracker, fed lists in which a detection may     *)
(* lack its box.                                                           *)
(***************************************************************************)
MalformedLists ==
    UNION {[1..n -> {Detection(BoxA), Detection(BoxC), Malformed}] : n \in 0..MaxDets}

SORTUpdateMalformed == SORTUpdateWith(MalformedLists, MaxFrames)

SimpleUpdateMalformed == SimpleUpdateWith(MalformedLists, MaxFrames)

NextMalformed == SORTUpdateMalformed \/ SimpleUpdateMalformed

SpecMalformed == Init /\ [][NextMalformed]_vars

(***************************************************************************)
(* The feed of frame_processor: its pose branch sets "orientation" to      *)
(* round(degrees(arctan2(dy, dx)), 1), a value in [-180, 180], and the     *)
(* class and confidence of the model's box.  One miniature stands still    *)
(* and is seen, or not, with its front keypoint below or above its centre. *)
(***************************************************************************)
FrontBelow == Det(BoxA, "miniatura", 90, 90)   \* arctan2(dy > 0, 0)
FrontAbove == Det(BoxA, "goblin", 50, -90)     \* arctan2(dy < 0, 0)

FeedLists == {<<>>, <<FrontBelow>>, <<FrontAbove>>}

SORTUpdateFeed == SORTUpdateWith(FeedLists, MaxFeedFrames)

SimpleUpdateFeed == SimpleUpdateWith(FeedLists, MaxFeedFrames)

NextFeed == SORTUpdateFeed \/ SimpleUpdateFeed

SpecFeed == Init /\ [][NextFeed]_vars

(***************************************************************************)
(* Calibration: one CameraManager driven by start_calibration,             *)
(* add_calibration_point, finish_calibration, set_simple_calibration and   *)
(* transform_point, and the _pixel_to_game_coords of an ArucoDetector.     *)
(***************************************************************************)
\* the image points a caller clicks: the corners of the frame and its centre
ImagePoints ==
    Range(Corners(FrameWidth, FrameHeight)) \cup {<<FrameWidth \div 2, FrameHeight \div 2>>}

\* the board point under the image point, for a board of the given size
BoardPoint(image_xy, game_width, game_height) ==
    <<(image_xy[1] * game_width) \div FrameWidth,
      (image_xy[2] * game_height) \div FrameHeight>>

\* the board sizes passed to set_simple_calibration
GameSizes == {<<GameWidth, GameHeight>>, <<FrameWidth, FrameHeight>>}

\* the pixels passed to transform_point and _pixel_to_game_coords
Pixels == {<<FrameWidth \div 2, FrameHeight \div 2>>, <<FrameWidth, FrameHeight>>}

InitCalibration ==
    /\ tracker = "SORTTracker"
    /\ max_age \in MaxAges
    /\ min_hits \in MinHits
    /\ NoMatch
    /\ NoServer
    /\ calibration = CalibrationData
    /\ cv2_available \in BOOLEAN
    /\ state = "disconnected"
    /\ was_calibrated = FALSE
    /\ cap = NoCap
    /\ running = FALSE
    /\ tracks = constructed.trks
    /\ next_id = constructed.nid
    /\ frame_count = constructed.frame_count
    /\ last_op = "init"
    /\ last_dets = <<>>
    /\ ret = <<>>
    /\ matched = <<>>
    /\ created = <<>>
    /\ removed = <<>>
    /\ steady = NoDet
    /\ session_ids = {}
    /\ hist_ids = {}
    /\ missed = <<>>

\* a camera call returns: the CalibrationData, the state and the value
CameraReturns(op, args, cal, st, value) ==
    /\ calibration' = cal
    /\ state' = st
    /\ last_op' = op
    /\ last_dets' = args
    /\ ret' = value
    /\ UNCHANGED <<tracker, max_age, min_hits, tracks, next_id, frame_count,
                   matched, created, removed, steady, session_ids, hist_ids, missed,
                   match_vars, cv2_available, cap, running, server_vars>>

\* calculate_homography() returned r inside the call op
Calculated(op, args, r, st) ==
    /\ CameraReturns(op, args, r.cal, IF r.ret THEN st ELSE state, r.ret)
    /\ was_calibrated' = (was_calibrated \/ r.ret)

\* add_calibration_point(image_xy, ...) leaves and returns r
AddReturns(image_xy, r) ==
    CameraReturns("add_calibration_point", image_xy, r.cal, state, r.ret)

StartCalibration ==
    /\ CameraReturns("start_calibration", <<>>, start_calibration(calibration),
                     "calibrating", <<>>)
    /\ UNCHANGED was_calibrated

\* add_calibration_point for a point of points, below limit points stored
AddCalibrationPointOf(points, limit) ==
    /\ Len(calibration.image_points) < limit
    /\ \E image_xy \in points :
        AddReturns(image_xy,
                   add_calibration_point(
                       calibration, image_xy,
                       BoardPoint(image_xy, calibration.game_width,
                                  calibration.game_height)))
    /\ UNCHANGED was_calibrated

AddCalibrationPoint == AddCalibrationPointOf(ImagePoints, MaxPoints)

\* finish_calibration(): on success the state becomes CONNECTED, or
\* STREAMING while the capture thread is to run
FinishCalibration ==
    \E outcome \in Outcomes(calibration.image_points, calibration.game_points) :
        Calculated("finish_calibration", <<>>,
                   calculate_homography(calibration, cv2_available, outcome),
                   IF ~running THEN "connected" ELSE "streaming")

SetSimpleCalibration ==
    \E size \in GameSizes :
        \E outcome \in Outcomes(Corners(FrameWidth, FrameHeight),
                                 Corners(size[1], size[2])) :
            Calculated("set_simple_calibration", size,
                       calculate_homography(
                           simple_points(calibration, size[1], size[2]),
                           cv2_available, outcome),
                       state)

TransformPoint ==
    /\ \E p \in Pixels :
        CameraReturns("transform_point", p, calibration, state,
                      transform_point(calibration, cv2_available, p[1], p[2]))
    /\ UNCHANGED was_calibrated

PixelToGameCoords ==
    /\ \E p \in Pixels :
        CameraReturns("pixel_to_game_coords", p, calibration, state,
                      pixel_to_game_coords(p[1], p[2]))
    /\ UNCHANGED was_calibrated

NextCalibration ==
    \/ StartCalibration
    \/ AddCalibrationPoint
    \/ FinishCalibration
    \/ SetSimpleCalibration
    \/ TransformPoint
    \/ PixelToGameCoords

SpecCalibration == InitCalibration /\ [][NextCalibration]_vars

(***************************************************************************)
(* Properties                                                              *)
(***************************************************************************)
(* Purge: one SimpleTracker with max_missing 1 or 2, fed no detection or   *)
(* one detection per frame, at the place of a track or far from it.        *)
(***************************************************************************)
PurgeMaxMissing == {1, 2}

PurgeLists == {<<>>, <<Detection(BoxA)>>, <<Detection(BoxC)>>}

InitPurge ==
    /\ tracker = "SimpleTracker"
    /\ min_hits = 1
    /\ max_age \in PurgeMaxMissing
    /\ Fresh

SimpleUpdatePurge == SimpleUpdateWith(PurgeLists, MaxPurgeFrames)

NextPurge == SimpleUpdatePurge \/ SimpleReset

SpecPurge == InitPurge /\ [][NextPurge]_vars

(***************************************************************************)
(* Order: one SimpleTracker fed frames of up to two detections that do not *)
(* overlap, so that _remove_duplicates of the frame processor keeps both,  *)
(* and of which two lie within max_distance of each other.                 *)
(***************************************************************************)
BoxD == <<150, 100, 190, 140>>   \* beside BoxA, 50 pixels to the right

OrderDetections == {Detection(BoxA), Detection(BoxD), Detection(BoxC)}

OrderLists ==
    {<<>>} \cup {<<a>> : a \in OrderDetections}
           \cup {<<a, b>> : a \in OrderDetections, b \in OrderDetections}

InitOrder ==
    /\ tracker = "SimpleTracker"
    /\ min_hits = 1
    /\ max_age \in MaxAges
    /\ Fresh

SimpleUpdateOrder == SimpleUpdateWith(OrderLists, MaxFrames)

NextOrder == SimpleUpdateOrder \/ SimpleReset

SpecOrder == InitOrder /\ [][NextOrder]_vars

(***************************************************************************)
(* Motion: one SORTTracker whose tracks carry position_history and         *)
(* velocity.                                                               *)
(***************************************************************************)
InitMotion ==
    /\ tracker = "SORTTracker"
    /\ min_hits \in MinHits
    /\ max_age \in MaxAges
    /\ Fresh

\* SORTTracker.update(dets): a track created has no history, a track
\* matched appends its new center, a track missed keeps what it had
SORTUpdateMotion ==
    /\ SORTUpdateTracks(DetLists, MaxFrames)
    /\ motion' = [k \in DOMAIN tracks' |->
                     IF k \in Ids(created') THEN NoMotion
                     ELSE IF k \in Ids(matched')
                     THEN moved(motion[k], tracks'[k].center)
                     ELSE motion[k]]

NextMotion == SORTUpdateMotion

SpecMotion == InitMotion /\ [][NextMotion]_vars

(***************************************************************************)
(* Smoothing: _circular_mean / _smooth_angle applied once to a history.    *)
(***************************************************************************)
SmoothAngles == {0, 10, 90, 350}

RECURSIVE Histories(_)
Histories(n) ==
    IF n = 0 THEN {<<>>}
    ELSE Histories(n - 1) \cup
         {Append(h, a) : h \in {g \in Histories(n - 1) : Len(g) = n - 1},
                         a \in SmoothAngles}

\* the histories whose mean direction is a whole number of degrees
SmoothHistories ==
    {h \in Histories(MaxHistory) : h # <<>> /\ OnTable(sins(h), coss(h))}

\* the smoothed orientation of the history h
CircularMean ==
    /\ last_op = "init"
    /\ \E h \in SmoothHistories :
        \E rounding \in Roundings(h) :
            /\ last_dets' = h
            /\ ret' = circular_mean_rounded(h, rounding)
    /\ last_op' = "circular_mean"
    /\ UNCHANGED <<tracker, max_age, min_hits, tracks, next_id, frame_count,
                   matched, created, removed, steady, session_ids, hist_ids, missed,
                   match_vars, camera_vars, server_vars>>

NextSmooth == CircularMean

SpecSmooth == Init /\ [][NextSmooth]_vars

(***************************************************************************)
(* Maps: the map endpoints of main.py, each one call of GameStateManager.  *)
(***************************************************************************)
MapIds == {"a1b2c3d4", "cave", "e5f6a7b8"}   \* ids of requests and of uuid4
MapNames == {"pytest-map", "cave"}

\* the bodies POSTed to /api/maps
Bodies ==
    {[name |-> n] : n \in MapNames}
    \cup {[id |-> i, name |-> n] : i \in MapIds \cup {NoId}, n \in MapNames}
    \cup {[id |-> i] : i \in MapIds}
    \cup {[name |-> n, width |-> "wide"] : n \in MapNames}

MapsStep(op, args, value) ==
    /\ last_op' = op
    /\ last_dets' = args
    /\ ret' = value
    /\ UNCHANGED <<tracker, max_age, min_hits, tracks, next_id, frame_count,
                   matched, created, removed, steady, session_ids, hist_ids, missed,
                   match_vars, camera_vars, loop_vars, tracking_vars, motion>>

\* POST /api/maps
SaveMap ==
    \E body \in Bodies, uuid \in MapIds :
        IF raises_ValidationError(body)
        THEN /\ MapsStep("save_map_raise", body, <<>>)
             /\ UNCHANGED maps_vars
        ELSE LET r == save_map(map_files, body, uuid)
             IN  /\ MapsStep("save_map", body, r.ret)
                 /\ map_files' = r.files
                 /\ saved_name' = write(saved_name, r.ret.id,
                                        IF "name" \in DOMAIN body THEN body.name
                                        ELSE DefaultName)
                 /\ UNCHANGED current_map

\* GET /api/maps/{map_id}
GetMap ==
    \E map_id \in MapIds :
        /\ MapsStep("get_map", map_id, get_map(map_files, map_id))
        /\ UNCHANGED maps_vars

\* DELETE /api/maps/{map_id}
DeleteMap ==
    \E map_id \in MapIds :
        LET r == delete_map(map_files, map_id)
        IN  /\ MapsStep("delete_map", map_id, r.ret)
            /\ map_files' = r.files
            /\ saved_name' = [i \in DOMAIN saved_name \ {map_id} |-> saved_name[i]]
            /\ UNCHANGED current_map

\* POST /api/maps/{map_id}/project
SetCurrentMap ==
    \E map_id \in MapIds :
        LET r == set_current_map(map_files, current_map, map_id)
        IN  /\ MapsStep("set_current_map", map_id, r.ret)
            /\ current_map' = r.current_map
            /\ UNCHANGED <<map_files, saved_name>>

NextMaps == SaveMap \/ GetMap \/ DeleteMap \/ SetCurrentMap

SpecMaps == Init /\ [][NextMaps]_vars

(***************************************************************************)
(* Tracking: the capture thread runs _update_tracking frame after frame    *)
(* while the endpoints /api/camera/miniatures... are served.               *)
(***************************************************************************)
MarkerLists == {<<>>, <<1>>, <<2>>, <<1, 2>>, <<2, 1>>}
Players == {"p1"}

TrackingStep(op, value) ==
    /\ last_op' = op
    /\ ret' = value
    /\ UNCHANGED <<tracker, max_age, min_hits, tracks, next_id, frame_count,
                   last_dets, matched, created, removed, steady, session_ids,
                   hist_ids, missed, match_vars, camera_vars, loop_vars,
                   maps_vars, motion>>

\* _capture_loop calls self._update_tracking(markers)
UpdateTracking ==
    /\ capture.pc = "outside"
    /\ \E markers \in MarkerLists :
        capture' = [Outside EXCEPT !.pc = "markers", !.markers = markers]
    /\ TrackingStep("_update_tracking", <<>>)
    /\ UNCHANGED <<tracked_miniatures, request>>

\* one pass of "for marker in markers"
TrackMarker ==
    /\ capture.pc = "markers"
    /\ capture.markers # <<>>
    /\ tracked_miniatures' =
           update_position(setdefault(tracked_miniatures, Head(capture.markers)),
                           Head(capture.markers))
    /\ capture' = [capture EXCEPT !.markers = Tail(@),
                                  !.seen = @ \cup {Head(capture.markers)}]
    /\ TrackingStep("_update_tracking", <<>>)
    /\ UNCHANGED request

\* "for marker_id, miniature in self.tracked_miniatures.items()" begins
MarkItems ==
    /\ capture.pc = "markers"
    /\ capture.markers = <<>>
    /\ capture' = [capture EXCEPT !.pc = "items", !.it = iter(tracked_miniatures)]
    /\ TrackingStep("_update_tracking", <<>>)
    /\ UNCHANGED <<tracked_miniatures, request>>

\* one step of that loop: it raises, it ends, or it looks at a miniature,
\* which it marks not visible if it was not seen for longer than the timeout
MarkItem ==
    /\ capture.pc = "items"
    /\ IF raises_RuntimeError(tracked_miniatures, capture.it)
       THEN /\ capture' = [Outside EXCEPT !.pc = "dead"]
            /\ TrackingStep("RuntimeError", <<>>)
            /\ UNCHANGED tracked_miniatures
       ELSE IF capture.it.pos = Len(tracked_miniatures)
       THEN /\ capture' = Outside
            /\ TrackingStep("_update_tracking", <<>>)
            /\ UNCHANGED tracked_miniatures
       ELSE /\ capture' = [capture EXCEPT !.it.pos = @ + 1]
            /\ \E timed_out \in BOOLEAN :
                tracked_miniatures' =
                    [tracked_miniatures EXCEPT ![capture.it.pos + 1].is_visible =
                        IF tracked_miniatures[capture.it.pos + 1].marker_id
                               \notin capture.seen /\ timed_out
                        THEN FALSE ELSE @]
            /\ TrackingStep("_update_tracking", <<>>)
    /\ UNCHANGED request

\* POST /api/camera/miniatures/assign
AssignPlayer ==
    /\ request.pc = "outside"
    /\ \E marker_id \in MarkerIds, player_id \in Players :
        tracked_miniatures' =
            assign_player_to_miniature(tracked_miniatures, marker_id, player_id)
    /\ TrackingStep("assign_player_to_miniature", TRUE)
    /\ UNCHANGED <<capture, request>>

\* get_all_miniatures() or get_visible_miniatures() begins its comprehension
GetMiniatures ==
    /\ request.pc = "outside"
    /\ \E method \in {"get_all_miniatures", "get_visible_miniatures"} :
        /\ request' = [Outside EXCEPT !.pc = method, !.it = iter(tracked_miniatures)]
        /\ TrackingStep(method, <<>>)
    /\ UNCHANGED <<tracked_miniatures, capture>>

\* one step of the comprehension: it raises, it returns the list, or it
\* takes the next miniature
NextMiniature ==
    /\ request.pc \notin {"outside", "dead"}
    /\ IF raises_RuntimeError(tracked_miniatures, request.it)
       THEN /\ request' = Outside
            /\ TrackingStep("RuntimeError", <<>>)
       ELSE IF request.it.pos = Len(tracked_miniatures)
       THEN /\ request' = Outside
            /\ TrackingStep(request.pc, request.out)
       ELSE /\ request' =
                  [request EXCEPT
                      !.it.pos = @ + 1,
                      !.out = IF request.pc = "get_all_miniatures"
                                 \/ tracked_miniatures[request.it.pos + 1].is_visible
                              THEN Append(@, tracked_miniatures[request.it.pos + 1].marker_id)
                              ELSE @]
            /\ TrackingStep(request.pc, <<>>)
    /\ UNCHANGED <<tracked_miniatures, capture>>

NextTracking ==
    \/ UpdateTracking
    \/ TrackMarker
    \/ MarkItems
    \/ MarkItem
    \/ AssignPlayer
    \/ GetMiniatures
    \/ NextMiniature

SpecTracking == Init /\ [][NextTracking]_vars

(***************************************************************************)
(* Camera: connect, disconnect, streaming and a calibration by the four    *)
(* corners of the frame, in any order.                                     *)
(***************************************************************************)
\* a camera call that leaves the calibration alone
CameraCall(op, c, st, run, value) ==
    /\ cap' = c
    /\ state' = st
    /\ running' = run
    /\ last_op' = op
    /\ last_dets' = <<>>
    /\ ret' = value
    /\ UNCHANGED <<tracker, max_age, min_hits, tracks, next_id, frame_count,
                   matched, created, removed, steady, session_ids, hist_ids, missed,
                   match_vars, calibration, cv2_available, was_calibrated,
                   server_vars>>

Connect ==
    \E outcome \in ConnectOutcomes :
        LET r == connect(cv2_available, cap, outcome)
        IN  CameraCall("connect", r.cap, r.state, running, r.ret)

Disconnect ==
    LET r == disconnect(state)
    IN  CameraCall("disconnect", r.cap, r.state, r.running, <<>>)

StartStreaming ==
    LET r == start_streaming(cv2_available, state, cap, running)
    IN  CameraCall("start_streaming", cap, r.state, r.running, r.ret)

StopStreaming ==
    LET r == stop_streaming(state)
    IN  CameraCall("stop_streaming", cap, r.state, r.running, <<>>)

\* add_calibration_point for the next corner of the frame
AddCorner ==
    AddCalibrationPointOf(
        {Corners(FrameWidth, FrameHeight)[(Len(calibration.image_points) % 4) + 1]},
        4)

NextCamera ==
    \/ Connect
    \/ Disconnect
    \/ StartStreaming
    \/ StopStreaming
    \/ StartCalibration
    \/ AddCorner
    \/ FinishCalibration

SpecCamera == InitCalibration /\ [][NextCamera]_vars

(***************************************************************************)
(* Event loop: one admin socket on /ws/camera and the stream_ip_camera     *)
(* tasks it starts.  What update() does to the tracks is the subject of    *)
(* the specifications above; here a call is its begin and its end.         *)
(***************************************************************************)
\* the tracker of the frame processor, left as constructed
IdleTracker ==
    /\ tracker = "SimpleTracker"
    /\ max_age \in MaxAges
    /\ min_hits = 1
    /\ NoMatch
    /\ NoCamera
    /\ FreshTracker

tracker_vars == <<tracker, max_age, min_hits, tracks, next_id, frame_count,
                  last_op, last_dets, ret, matched, created, removed, steady,
                  session_ids, hist_ids, missed>>

\* the socket is accepted and websocket_camera waits in receive_text()
InitLoop ==
    /\ IdleTracker
    /\ NoMaps
    /\ NoTracking
    /\ motion = <<>>
    /\ current = "none"
    /\ pc = [t \in Tasks |-> IF t = "ws" THEN "receive" ELSE "unborn"]
    /\ updating = {}
    /\ processed = 0

LoopStep == UNCHANGED <<tracker_vars, match_vars, camera_vars, maps_vars, tracking_vars, motion>>

\* receive_text() returns msg: the loop resumes websocket_camera
WsReceive ==
    /\ current = "none"
    /\ pc["ws"] = "receive"
    /\ \E msg \in Messages :
        pc' = [pc EXCEPT !["ws"] = dispatch(msg)]
    /\ current' = "ws"
    /\ UNCHANGED <<updating, processed>>
    /\ LoopStep

\* asyncio.create_task(stream_ip_camera(...)), then back to receive_text()
WsCreateTask ==
    /\ current = "ws"
    /\ pc["ws"] = "create_task"
    /\ \/ \E t \in IpTasks :
            /\ pc[t] = "unborn"
            /\ pc' = [pc EXCEPT ![t] = "ready", !["ws"] = "receive"]
       \/ /\ \A t \in IpTasks : pc[t] # "unborn"
          /\ pc' = [pc EXCEPT !["ws"] = "receive"]
    /\ current' = "none"
    /\ UNCHANGED <<updating, processed>>
    /\ LoopStep

\* the loop resumes a stream_ip_camera task: it reads the next frame
IpResume ==
    /\ current = "none"
    /\ \E t \in IpTasks :
        /\ pc[t] \in {"ready", "sleep"}
        /\ pc' = [pc EXCEPT ![t] = "frame"]
        /\ current' = t
    /\ UNCHANGED <<updating, processed>>
    /\ LoopStep

\* the loop resumes a stream_ip_camera task that returns: the camera did
\* not open, or _ip_stream_active is off
IpReturn ==
    /\ current = "none"
    /\ \E t \in IpTasks :
        /\ pc[t] \in {"ready", "sleep"}
        /\ pc' = [pc EXCEPT ![t] = "done"]
    /\ UNCHANGED <<current, updating, processed>>
    /\ LoopStep

\* process_frame(frame_base64) is called and reaches tracker.update()
BeginUpdate ==
    /\ processed < MaxLoopFrames
    /\ \E t \in Tasks :
        /\ current = t
        /\ pc[t] = "frame"
        /\ pc' = [pc EXCEPT ![t] = "update"]
        /\ updating' = updating \cup {t}
        /\ current' = call_process_frame(t)
    /\ processed' = processed + 1
    /\ LoopStep

\* tracker.update() returns or raises, and process_frame returns
EndUpdate ==
    /\ \E t \in Tasks :
        /\ pc[t] = "update"
        /\ pc' = [pc EXCEPT ![t] = "send"]
        /\ updating' = updating \ {t}
        /\ current' = t
    /\ UNCHANGED processed
    /\ LoopStep

\* await send_json_safe(...): the coroutine gives the loop back, and is
\* next resumed in receive_text() or after asyncio.sleep()
Send ==
    /\ \E t \in Tasks :
        /\ current = t
        /\ pc[t] = "send"
        /\ pc' = [pc EXCEPT ![t] = IF t = "ws" THEN "receive" ELSE "sleep"]
    /\ current' = "none"
    /\ UNCHANGED <<updating, processed>>
    /\ LoopStep

NextLoop ==
    \/ WsReceive
    \/ WsCreateTask
    \/ IpResume
    \/ IpReturn
    \/ BeginUpdate
    \/ EndUpdate
    \/ Send

SpecLoop == InitLoop /\ [][NextLoop]_vars

(***************************************************************************)
IsSORT == tracker = "SORTTracker"
IsSimple == tracker = "SimpleTracker"
Updated == last_op = "update"
HasSteady == steady # NoDet /\ steady # Broken

\* C1: after every SORTTracker.update(), no track of get_all_tracks() has
\* frames_missing above max_age.
C1_NoTrackPastMaxAge ==
    IsSORT /\ Updated =>
        \A k \in DOMAIN tracks : tracks[k].frames_missing <= max_age

\* C2: a fresh SORTTracker fed the same single detection in every frame has
\* allocated exactly one id, 1; its only track is track 1 and update() never
\* returns a track with another id.
C2_OneTrackOneId ==
    IsSORT /\ HasSteady =>
        /\ DOMAIN tracks = {1}
        /\ next_id = 2
        /\ session_ids = {1}
        /\ Range(ret) \subseteq {1}
        /\ tracks[1].bbox = steady.bbox

C2_Witness ==
    /\ IsSORT
    /\ steady = Detection(BoxA)
    /\ frame_count = MaxFrames
    /\ ret = <<1>>

\* C3: a track created by this update() has frames_tracked = 1 and
\* frames_missing = 0, and after N consecutive frames with the same single
\* detection its track has frames_tracked = N.
C3_CountsCreatingFrame ==
    IsSORT /\ Updated =>
        /\ \A c \in Range(created) :
              /\ tracks[c[2]].frames_tracked = 1
              /\ tracks[c[2]].frames_missing = 0
        /\ HasSteady =>
              \A k \in DOMAIN tracks : tracks[k].frames_tracked = frame_count

\* C4: update() returns every live track with frames_tracked >= min_hits and
\* frames_missing <= max_age, and no track with frames_tracked < min_hits.
C4_ReturnsConfirmed ==
    IsSORT /\ Updated =>
        /\ \A k \in DOMAIN tracks :
              tracks[k].frames_tracked >= min_hits
                  /\ tracks[k].frames_missing <= max_age
              => k \in Range(ret)
        /\ \A k \in Range(ret) :
              k \in DOMAIN tracks /\ tracks[k].frames_tracked >= min_hits

\* C5: a track whose frames_missing has exceeded max_age is not matched to a
\* detection and not returned by any later update().
C5_NeverResurrected ==
    [][IsSORT /\ last_op' = "update" =>
          \A k \in DOMAIN tracks :
              tracks[k].frames_missing > max_age
              => k \notin Ids(matched') /\ k \notin Range(ret')]_vars

\* C6: update() removes a track from the live set only when the frames_missing
\* it reaches in that call exceeds max_age.
C6_RemovedOnlyPastMaxAge ==
    [][IsSORT /\ last_op' = "update" =>
          \A k \in DOMAIN tracks \ DOMAIN tracks' :
              tracks[k].frames_missing + 1 > max_age]_vars

\* the ids in created', in creation order, increase strictly and exceed every
\* id of earlier
IdsAbove(earlier) ==
    \A i \in 1..Len(created') :
        /\ \A h \in earlier : created'[i][2] > h
        /\ \A j \in 1..(i - 1) : created'[i][2] > created'[j][2]

\* C7 as stated: every track update() creates gets an id above every id
\* allocated earlier in the session, reset() calls included.
C7_IdsNeverReused ==
    [][IsSORT /\ last_op' = "update" => IdsAbove(hist_ids)]_vars

\* C7 as amended: every track update() creates gets an id above every id
\* allocated since construction or the last reset(), and the ids created in one
\* frame are distinct.
C7_IdsFreshSinceReset ==
    [][IsSORT /\ last_op' = "update" => IdsAbove(session_ids)]_vars

C7_Witness ==
    /\ IsSORT
    /\ Updated
    /\ Len(created) = 2
    /\ created[2][2] = 2
    /\ hist_ids = {1, 2}

\* C8: after reset() the dict, next_id and frame_count are those of a newly
\* constructed tracker, and the first track created afterwards gets id 1.
C8_ResetIsFresh ==
    [][/\ last_op' = "reset" =>
              /\ tracks' = constructed.trks
              /\ next_id' = constructed.nid
              /\ frame_count' = constructed.frame_count
       /\ last_op = "reset" /\ last_op' = "update" /\ created' # <<>> =>
              created'[1][2] = 1]_vars

C8_Witness ==
    /\ last_op = "update"
    /\ created # <<>>
    /\ created[1][2] = 1
    /\ hist_ids # session_ids

\* what one update() did to the track before, leaving it as after
IsMatch(before, after) ==
    /\ after.frames_tracked = before.frames_tracked + 1
    /\ after.frames_missing = 0
IsMiss(before, after) ==
    /\ after.frames_missing = before.frames_missing + 1
    /\ after.frames_tracked = before.frames_tracked

\* the track k of the dict before the call, as the call left it: in the dict,
\* or deleted by _cleanup()
Left(k) == IF k \in DOMAIN tracks' THEN tracks'[k] ELSE removed'[k]

\* C9: in each SORTTracker.update() every track that existed before the call
\* is either matched (frames_tracked + 1, frames_missing = 0) or missed
\* (frames_missing + 1, frames_tracked unchanged), never both, never neither;
\* the matched ones are those of the committed pairs.
C9_MatchXorMiss ==
    [][IsSORT /\ last_op' = "update" =>
          \A k \in DOMAIN tracks :
              /\ k \in DOMAIN tracks' \cup DOMAIN removed'
              /\ IsMatch(tracks[k], Left(k)) \/ IsMiss(tracks[k], Left(k))
              /\ ~(IsMatch(tracks[k], Left(k)) /\ IsMiss(tracks[k], Left(k)))
              /\ IsMatch(tracks[k], Left(k)) <=> k \in Ids(matched')]_vars

C9_Witness ==
    /\ IsSORT
    /\ Updated
    /\ matched # <<>>
    /\ \E k \in DOMAIN tracks : tracks[k].frames_missing > 0

Distinct(pairs, c) ==
    \A i, j \in 1..Len(pairs) : i # j => pairs[i][c] # pairs[j][c]

\* C10: in every update() of either tracker no detection is matched to two
\* tracks, no track is updated by two detections, and a track created in the
\* frame is not matched by a detection of the same frame.
C10_OneToOne ==
    Updated =>
        /\ Distinct(matched, 1)
        /\ Distinct(matched, 2)
        /\ Distinct(created, 1)
        /\ Distinct(created, 2)
        /\ Idxs(matched) \cap Idxs(created) = {}
        /\ Ids(matched) \cap Ids(created) = {}

C10_Witness ==
    /\ IsSimple
    /\ Updated
    /\ Len(last_dets) = 2
    /\ Len(matched) = 1
    /\ Len(created) = 1

(***************************************************************************)
(* The greedy loop                                                         *)
(***************************************************************************)
Matching == matching.pc # "idle"
MatchDone == matching.pc = "done"

\* the position of track id k in track_ids
Pos(k) == CHOOSE j \in 1..Len(matching.track_ids) : matching.track_ids[j] = k

\* the score _match was given for detection d and track k
Score(d, k) == matching.scores[<<d, Pos(k)>>]

\* the cell of the i-th committed pair
Committed(l, i) == <<l.lists.matched_det[i], Pos(l.lists.matched_trk[i])>>

\* C11: _match commits a pair only if its combined score is at least
\* iou_threshold, breaks only when every remaining score is below it, and
\* after it no unmatched detection and unmatched track have a combined score
\* of iou_threshold or more.
C11_NoPairLeftAboveThreshold ==
    Matching =>
        /\ \A i \in 1..Len(matching.lists.matched_det) :
              ~RatLT(matching.scores[Committed(matching, i)], iou_threshold)
        /\ MatchDone =>
              /\ \A q \in DOMAIN matching.iou_matrix :
                    RatLT(matching.iou_matrix[q], iou_threshold)
              /\ \A d \in Range(matching.lists.unmatched_det) :
                    \A k \in Range(matching.lists.unmatched_trk) :
                        RatLT(Score(d, k), iou_threshold)

C11_Witness ==
    /\ MatchDone
    /\ iou_threshold = IouThreshold
    /\ Len(matching.lists.matched_det) = 1
    /\ matching.lists.unmatched_det # <<>>
    /\ matching.lists.unmatched_trk # <<>>
    /\ \E q \in DOMAIN matching.scores :
          /\ q # Committed(matching, 1)
          /\ ~RatLT(matching.scores[q], iou_threshold)

\* C12: for every iou_threshold >= 0, 0 included, the greedy loop commits at
\* most min(M, N) pairs, M detections and N tracks, and then exits.
C12_AtMostMinPairs ==
    Matching =>
        Len(matching.lists.matched_det)
            <= Min2(matching.num_det, Len(matching.track_ids))

(***************************************************************************)
(* Malformed input                                                         *)
(***************************************************************************)
\* what update() would have done with the well-formed detections of dets
Skipping(dets) ==
    IF IsSORT THEN sort_update(tracks, next_id, well_formed(dets), max_age, min_hits)
    ELSE simple_update(tracks, next_id, well_formed(dets), max_age)

Same(u) == tracks' = u.trks /\ next_id' = u.nid /\ ret' = u.ret

\* C13: an update() whose list holds a detection without a box returns
\* normally and leaves the tracks, next_id and the returned list as the same
\* call without that detection would.
C13_MalformedSkipped ==
    [][last_op' \in {"update", "raise"} /\ raises_KeyError(last_dets') =>
          last_op' = "update" /\ Same(Skipping(last_dets'))]_vars

(***************************************************************************)
(* The greedy choice                                                       *)
(***************************************************************************)
RatEq(a, b) == a[1] * b[2] = b[1] * a[2]

\* cell p is cell q or comes before it in row-major order
RowMajorLE(p, q) == p[1] < q[1] \/ (p[1] = q[1] /\ p[2] <= q[2])

\* the pass from the locals l committed a pair and left l2
Commits(l, l2) ==
    l.pc = "loop" /\ Len(l2.lists.matched_det) = Len(l.lists.matched_det) + 1

Chosen(l2) == Committed(l2, Len(l2.lists.matched_det))

\* C14: every pass of the greedy loop commits a cell whose score no remaining
\* score exceeds, and among the cells with that score the first one in
\* row-major order: lowest detection index, then lowest track position.
C14_CommitsFirstMaximum ==
    [][Commits(matching, matching') =>
          \A q \in DOMAIN matching.iou_matrix :
              /\ ~RatLT(matching.iou_matrix[Chosen(matching')],
                        matching.iou_matrix[q])
              /\ RatEq(matching.iou_matrix[q],
                       matching.iou_matrix[Chosen(matching')])
                 => RowMajorLE(Chosen(matching'), q)]_vars

C14_Witness ==
    /\ Matching
    /\ iou_threshold = IouThreshold
    /\ Len(matching.lists.matched_det) >= 1
    /\ \E q \in DOMAIN matching.scores :
          /\ q # Committed(matching, 1)
          /\ RatEq(matching.scores[q], matching.scores[Committed(matching, 1)])

(***************************************************************************)
(* The feed                                                                *)
(***************************************************************************)
\* C15: after an update() that matched a detection to a track, the track's
\* class_name and confidence are those of that detection.
C15_LabelFromLastMatch ==
    IsSORT /\ Updated =>
        \A i \in 1..Len(matched) :
            /\ tracks[matched[i][2]].class_name = last_dets[matched[i][1]].class
            /\ tracks[matched[i][2]].confidence = last_dets[matched[i][1]].confidence

\* C16: after every update() of either tracker, fed by frame_processor, the
\* orientation of every live track lies in [0, 360).
C16_OrientationInRange ==
    Updated =>
        \A k \in DOMAIN tracks :
            tracks[k].orientation >= 0 /\ tracks[k].orientation < 360

Window == IF IsSORT THEN OrientationWindow ELSE MiniOrientationWindow

\* the history old after the sample x arrived in a window of Window samples
Arrived(old, x) ==
    IF Len(old) = Window THEN Append(Tail(old), x) ELSE Append(old, x)

\* C17: orientation_history never holds more samples than its window, 5 in a
\* TrackedObject and 10 in a TrackedMini; a match appends the detection's
\* orientation, and on a full window drops exactly the oldest sample and
\* keeps the others in arrival order.
C17_WindowKeepsNewest ==
    [][last_op' = "update" =>
          /\ \A k \in DOMAIN tracks' :
                Len(tracks'[k].orientation_history) <= Window
          /\ \A i \in 1..Len(matched') :
                tracks'[matched'[i][2]].orientation_history
                    = Arrived(tracks[matched'[i][2]].orientation_history,
                              last_dets'[matched'[i][1]].orientation)]_vars

C17_Witness ==
    /\ IsSORT
    /\ Updated
    /\ matched # <<>>
    /\ \E k \in DOMAIN tracks :
          /\ tracks[k].frames_tracked > OrientationWindow
          /\ Len(tracks[k].orientation_history) = OrientationWindow
          /\ tracks[k].orientation_history[1] # tracks[k].orientation_history[2]

(***************************************************************************)
(* Calibration                                                             *)
(***************************************************************************)
Stored == Len(calibration.image_points)
HasHomography == calibration.homography_matrix # NoHomography

\* C18: finish_calibration() on a CalibrationData with fewer than four
\* correspondences returns False and leaves is_calibrated false and no
\* homography, also after an earlier calibration had succeeded.
C18_TooFewPointsStaysUncalibrated ==
    [][last_op' = "finish_calibration" /\ Stored < 4 =>
          /\ ret' = FALSE
          /\ ~calibration'.is_calibrated
          /\ calibration'.homography_matrix = NoHomography]_vars

C18_Witness ==
    /\ last_op = "finish_calibration"
    /\ ret = FALSE
    /\ was_calibrated
    /\ cv2_available
    /\ Stored \in 1..3
    /\ ~calibration.is_calibrated

\* C19: in every state the calibration calls reach, is_calibrated is true
\* exactly when a homography is present, a homography is present only with
\* at least four correspondences stored, image_points and game_points have
\* the same length, and that length is what add_calibration_point returned.
C19_CalibrationConsistent ==
    /\ calibration.is_calibrated <=> HasHomography
    /\ HasHomography => Stored >= 4
    /\ Len(calibration.game_points) = Stored
    /\ last_op = "add_calibration_point" => ret = Stored

C19_Witness ==
    /\ last_op = "add_calibration_point"
    /\ calibration.is_calibrated
    /\ Stored = 5
    /\ state = "connected"

\* the proportional scaling of the pixel p onto a width x height board
Proportional(p, width, height) ==
    <<(p[1] * width) \div FrameWidth, (p[2] * height) \div FrameHeight>>

\* C20: without a homography, transform_point and _pixel_to_game_coords
\* return the pixel scaled by board size over frame size.
C20_FallbackIsProportional ==
    /\ last_op = "transform_point" /\ ~HasHomography =>
          ret = Proportional(last_dets, calibration.game_width,
                             calibration.game_height)
    /\ last_op = "pixel_to_game_coords" =>
          ret = Proportional(last_dets, PlayAreaWidth, PlayAreaHeight)

(***************************************************************************)
(* C21..C30                                                                *)
(***************************************************************************)
\* C21: update() calls on the shared session never interleave: while one
\* coroutine is inside tracker.update(), no other coroutine is.
C21_UpdatesNeverInterleave ==
    Cardinality(updating) <= 1

\* an update() runs for one coroutine while another one stands in the
\* middle of its stream
C21_Witness ==
    /\ updating = {"ws"}
    /\ pc["ip1"] = "sleep"
    /\ processed >= 2

\* C22: the smoothed orientation is the circular mean of the history,
\* normalised to [0, 360): the history [350, 10] smooths to a value within
\* a few degrees of 0 and not to 180.
C22_CircularMeanInRange ==
    last_op = "circular_mean" =>
        /\ ret >= 0 /\ ret < 360
        /\ last_dets = <<350, 10>> => ret <= 5 \/ ret >= 355

\* C23: after set_simple_calibration(Bw, Bh) succeeds on a W x H frame,
\* exactly the four corner correspondences are stored, and the transform
\* maps each image corner to the board corner and the centre of the frame
\* to the centre of the board.
C23_SimpleCalibrationMapsCorners ==
    last_op = "set_simple_calibration" /\ ret = TRUE =>
        /\ calibration.image_points = Corners(FrameWidth, FrameHeight)
        /\ calibration.game_points = Corners(last_dets[1], last_dets[2])
        /\ \A i \in 1..4 :
              transform_point(calibration, cv2_available,
                              Corners(FrameWidth, FrameHeight)[i][1],
                              Corners(FrameWidth, FrameHeight)[i][2])
                  = Corners(last_dets[1], last_dets[2])[i]
        /\ transform_point(calibration, cv2_available,
                           FrameWidth \div 2, FrameHeight \div 2)
               = <<last_dets[1] \div 2, last_dets[2] \div 2>>

\* a simple calibration onto a board larger than the frame has succeeded
C23_Witness ==
    /\ last_op = "set_simple_calibration"
    /\ ret = TRUE
    /\ last_dets = <<GameWidth, GameHeight>>
    /\ calibration.is_calibrated

\* C24: under the id that save_map returned, and until delete_map is called
\* for it, get_map returns a map with the saved name, set_current_map
\* succeeds, and delete_map succeeds.
C24_SavedMapIsServed ==
    /\ last_op = "save_map" => ret.id \in DOMAIN saved_name
    /\ \A map_id \in DOMAIN saved_name :
        /\ get_map(map_files, map_id) # NoMap
        /\ get_map(map_files, map_id).name = saved_name[map_id]
        /\ set_current_map(map_files, current_map, map_id).ret
        /\ delete_map(map_files, map_id).ret
    /\ last_op = "get_map" /\ last_dets \in DOMAIN saved_name =>
          ret # NoMap /\ ret.name = saved_name[last_dets]
    /\ last_op = "set_current_map" /\ last_dets \in DOMAIN saved_name =>
          ret = TRUE /\ current_map.name = saved_name[last_dets]

\* a map saved without an id is projected under the id it was given, while
\* another saved map was deleted
C24_Witness ==
    /\ last_op = "set_current_map"
    /\ ret = TRUE
    /\ last_dets \in DOMAIN saved_name
    /\ current_map.name = "pytest-map"
    /\ Cardinality(DOMAIN map_files) = 1

\* C25: a SimpleTracker track that an update() leaves unmatched for the
\* (max_missing + 1)-th call in a row is removed in that call, whether the
\* list was empty or not; one unmatched for the max_missing-th call in a row
\* is still in the returned list.
C25_PurgedAfterMaxMissing ==
    [][IsSimple /\ last_op' = "update" =>
          \A k \in DOMAIN tracks \ Ids(matched') :
              /\ missed[k] + 1 = max_age + 1 =>
                    k \notin DOMAIN tracks' /\ k \notin Range(ret')
              /\ missed[k] + 1 = max_age =>
                    k \in DOMAIN tracks' /\ k \in Range(ret')]_vars

\* a call with a detection far from a track removes the track, at its third
\* call in a row without a match
C25_Witness ==
    /\ IsSimple
    /\ last_op = "update"
    /\ max_age = 2
    /\ last_dets # <<>>
    /\ \E k \in DOMAIN removed : removed[k].frames_missing = max_age + 1

\* the track each detection of dets was matched to, from the pairs of an
\* update(), and the detections that were made new tracks
Assignment(dets, pairs) == {<<dets[p[1]], p[2]>> : p \in Range(pairs)}
Unassigned(dets, pairs) == {dets[p[1]] : p \in Range(pairs)}

Reversed(dets) == [i \in 1..Len(dets) |-> dets[Len(dets) + 1 - i]]

\* C26: SimpleTracker.update() matches every detection to the same track,
\* the globally closest pairs first, for every ordering of the same
\* detections in the list; the same detections are left to start new tracks.
C26_OrderIndependent ==
    [][IsSimple /\ last_op' = "update" =>
          LET r == simple_update(tracks, next_id, Reversed(last_dets'), max_age)
          IN  /\ Assignment(Reversed(last_dets'), r.matched)
                    = Assignment(last_dets', matched')
              /\ Unassigned(Reversed(last_dets'), r.created)
                    = Unassigned(last_dets', created')]_vars

\* C27: after every matched update of a SORTTracker track, the first match
\* after its creation included, velocity is the new center minus the center
\* of the frame before, and position_history holds at most 10 centers.
C27_VelocityIsLastMove ==
    [][IsSORT /\ last_op' = "update" =>
          \A i \in 1..Len(matched') :
              LET k == matched'[i][2]
              IN  /\ motion'[k].velocity =
                        <<tracks'[k].center[1] - tracks[k].center[1],
                          tracks'[k].center[2] - tracks[k].center[2]>>
                  /\ Len(motion'[k].position_history) <= PositionWindow]_vars

\* C28: a SimpleTracker.update() that raises on a malformed detection
\* leaves the session as it was before the call: no track aged, updated,
\* created or removed, and next_id unchanged.
C28_RaiseLeavesSessionUntouched ==
    [][IsSimple /\ last_op' = "raise" =>
          tracks' = tracks /\ next_id' = next_id]_vars

\* C29: tracked_miniatures is never given a new key by one thread while the
\* other thread iterates it: _update_tracking of the capture thread and the
\* miniature methods of the request side exclude each other.
C29_NoMutationWhileIterating ==
    [][Len(tracked_miniatures') # Len(tracked_miniatures) =>
          /\ last_op' = "_update_tracking" => request.pc = "outside"
          /\ last_op' = "assign_player_to_miniature" => capture.pc # "items"]_vars

\* C30: the state is CONNECTED or STREAMING only while a camera handle is
\* open, after every sequence of connect, disconnect, start_streaming,
\* stop_streaming, start_calibration, add_calibration_point and
\* finish_calibration.
C30_ConnectedOnlyWithOpenCamera ==
    state \in {"connected", "streaming"} => cap = "open"

====
